---- MODULE Spec2Model ----
(***************************************************************************)
(* Dynamic Personal Finance Agent: the FinanceAgent workflow graph, the    *)
(* analysis modules, the /chat action executor and the scoring functions  *)
(* of the advanced planner, as state machines.                             *)
(*                                                                         *)
(* Four specifications share this module:                                  *)
(*   Spec / FairSpec  FinanceAgent.process_query over the LangGraph graph  *)
(*   ToolSpec         analysis modules invoked directly on a WorkflowState *)
(*   ChatSpec         the /chat endpoint of api/routers/chat_router.py     *)
(*   ScoreSpec        the Financial Health Score and its primitives        *)
(* Numbers are exact rationals <<n, d>> (d > 0); Python floats are         *)
(* modelled by their exact values.                                         *)
(***************************************************************************)
EXTENDS Integers, Sequences, FiniteSets, TLC

VARIABLES
    pc,       \* per query: the graph node about to run, or idle/END/raised
    st,       \* per query: the FinanceAgentState dict built by process_query
    refs,     \* per query: identity of the state's mutable containers
    arg,      \* per query: the conversation_history argument (a list identity)
    env,      \* per query: the envelope process_query returned
    trace,    \* per query: the nodes that have run, in order
    heap,     \* message lists by identity: their contents
    ws,       \* ToolSpec: the WorkflowState the modules are invoked on
    calls,    \* ToolSpec: the modules invoked so far, in order
    chat,     \* ChatSpec: the /chat request being handled
    inp,      \* ScoreSpec: transactions, budget, investments
    out       \* ScoreSpec: the computed scores

vars == <<pc, st, refs, arg, env, trace, heap, ws, calls, chat, inp, out>>

agentVars == <<pc, st, refs, arg, env, trace, heap>>
toolVars  == <<ws, calls>>
chatVars  == <<chat>>
scoreVars == <<inp, out>>

(***************************************************************************)
(* Python dicts: functions with a finite domain of keys.                   *)
(***************************************************************************)
EmptyDict == [k \in {} |-> 0]

DictSet(d, k, v) == [x \in (DOMAIN d) \cup {k} |-> IF x = k THEN v ELSE d[x]]

\* list.append
Append1(l, x) == Append(l, x)

IsPrefix(a, b) == Len(a) <= Len(b) /\ SubSeq(b, 1, Len(a)) = a

(***************************************************************************)
(* Names of the graph: the processing nodes and the tool nodes.            *)
(***************************************************************************)
ToolNodes ==
    { "transaction_analyzer", "budget_manager", "investment_analyzer",
      "goal_tracker", "financial_insights", "advanced_financial_planner",
      "risk_assessment", "market_intelligence", "graph_visualization" }

\* The tool classes whose source is tools/*.py of this repository.
SourceTools ==
    { "investment_analyzer", "advanced_financial_planner", "risk_assessment",
      "market_intelligence", "graph_visualization" }

ProcessingNodes ==
    { "user_input", "intent_classifier", "context_retriever",
      "response_synthesizer" }

GraphNodes == ProcessingNodes \cup ToolNodes

\* The intent taxonomy, and one label outside it.
Intents ==
    { "EXPENSE_TRACKING", "BUDGET_ANALYSIS", "INVESTMENT_INQUIRY",
      "GOAL_TRACKING", "FINANCIAL_INSIGHTS", "RISK_ASSESSMENT",
      "MARKET_INTELLIGENCE", "ADVANCED_PLANNING", "GENERAL_INQUIRY" }

IntentLabels == Intents \cup {"UNRECOGNIZED"}

(***************************************************************************)
(* A user query is the set of keywords (substrings) it contains.           *)
(***************************************************************************)
AgentQueries == { {"how are", "performance"}, {"workflow"} }

\* The "investments" entry of the context: missing (None), an empty list, a
\* non-empty list of holding dicts (what InvestmentAnalyzerTool iterates), or
\* a portfolio dict {"investments": [...]} (what the planner and the risk
\* module read with .get).
InvestmentKinds == {"absent", "empty", "list", "dict"}

AgentContexts == [investments : {"absent", "list"}]

\* A module's result dict: the sub-analysis it ran and its "error" entry.
Payload(type, error) == [analysis_type |-> type, error |-> error]

NoError == ""

\* What a node call produces: the state it leaves, and whether it raised.
Returned(s)    == [raised |-> FALSE, exc |-> "", state |-> s]
Raised(s, exc) == [raised |-> TRUE, exc |-> exc, state |-> s]

(***************************************************************************)
(* tools/investment_analyzer.py                                            *)
(***************************************************************************)
PerformanceWords == {"performance", "how are", "doing"}
GainsWords       == {"gains", "losses", "profit"}
AllocationWords  == {"diversification", "allocation", "breakdown"}
BestWorstWords   == {"best", "worst", "top", "bottom"}

\* any(word in query for word in words)
AnyWordIn(words, query) == words \cap query # {}

\* A chain that tested the best/worst group before gains/losses.
InvestmentSubAnalysisReordered(query) ==
    IF AnyWordIn(PerformanceWords, query) THEN "Portfolio Performance"
    ELSE IF AnyWordIn(BestWorstWords, query) THEN "Best & Worst Performers"
    ELSE IF AnyWordIn(GainsWords, query) THEN "Gains & Losses"
    ELSE IF AnyWordIn(AllocationWords, query) THEN "Portfolio Allocation"
    ELSE "Portfolio Summary"

\* The if/elif chain of __call__ that picks the sub-analysis.
InvestmentSubAnalysis(query) ==
    IF AnyWordIn(PerformanceWords, query) THEN "Portfolio Performance"
    ELSE IF AnyWordIn(GainsWords, query) THEN "Gains & Losses"
    ELSE IF AnyWordIn(AllocationWords, query) THEN "Portfolio Allocation"
    ELSE IF AnyWordIn(BestWorstWords, query) THEN "Best & Worst Performers"
    ELSE "Portfolio Summary"

\* not investments
NoInvestments(context) == context.investments \in {"absent", "empty"}

\* The early return of __call__ on missing data: the error payload is stored
\* and the state is returned as it is.
InvestmentNoDataState(s) ==
    [s EXCEPT !.analysis_results =
        DictSet(@, "investment_analyzer",
                Payload("", "No investment data available"))]

\* A module that raised on missing data instead of recording it.
InvestmentAnalyzerStrict(s) ==
    IF NoInvestments(s.context) \/ s.context.investments = "dict"
    THEN Raised(s, "KeyError")
    ELSE Returned(
           [s EXCEPT
              !.analysis_results =
                  DictSet(@, "investment_analyzer",
                          Payload(InvestmentSubAnalysis(s.user_query), NoError)),
              !.tools_used = Append1(@, "investment_analyzer")])

InvestmentAnalyzerTool(s) ==
    IF NoInvestments(s.context)
    THEN Returned(InvestmentNoDataState(s))
    ELSE IF s.context.investments = "dict"
         \* iterating a dict yields its keys: inv.get raises AttributeError
         THEN Raised(s, "AttributeError")
         ELSE Returned(
                [s EXCEPT
                   !.analysis_results =
                       DictSet(@, "investment_analyzer",
                               Payload(InvestmentSubAnalysis(s.user_query), NoError)),
                   !.tools_used = Append1(@, "investment_analyzer")])

(***************************************************************************)
(* The modules that store their result and append their name:              *)
(* advanced_financial_planner.py, risk_assessment.py,                      *)
(* market_intelligence.py, graph_visualization.py.                         *)
(***************************************************************************)
\* A module that replaced the results mapping instead of setting its key.
StoreAloneAndRegister(s, name, analysis) ==
    [s EXCEPT !.analysis_results = DictSet(EmptyDict, name, analysis),
              !.tools_used = Append1(@, name)]

\* state["analysis_results"][name] = analysis; state["tools_used"].append(name)
StoreAndRegister(s, name, analysis) ==
    [s EXCEPT !.analysis_results = DictSet(@, name, analysis),
              !.tools_used = Append1(@, name)]

\* _comprehensive_financial_analysis: the try block fails at
\* investments.get when investments is a non-empty list, and the except
\* clause stores the message under "error".
PlannerAnalysis(context) ==
    IF context.investments = "list"
    THEN Payload("financial_analysis", "Analysis error")
    ELSE Payload("financial_analysis", NoError)

AdvancedFinancialPlannerTool(s) ==
    Returned(StoreAndRegister(s, "advanced_financial_planner",
                              PlannerAnalysis(s.context)))

\* _comprehensive_risk_analysis: the same try/except shape.
RiskAnalysis(context) ==
    IF context.investments = "list"
    THEN Payload("risk_analysis", "Risk analysis error")
    ELSE Payload("risk_analysis", NoError)

RiskAssessmentTool(s) ==
    Returned(StoreAndRegister(s, "risk_assessment", RiskAnalysis(s.context)))

MarketIntelligenceTool(s) ==
    Returned(StoreAndRegister(s, "market_intelligence",
                              Payload("market_analysis", NoError)))

GraphVisualizationTool(s) ==
    Returned(StoreAndRegister(s, "graph_visualization",
                              Payload("workflow_graph", NoError)))

\* The module object registered under a tool node's name (setup_tools).
SourceToolCall(name, s) ==
    CASE name = "investment_analyzer"        -> InvestmentAnalyzerTool(s)
      [] name = "advanced_financial_planner" -> AdvancedFinancialPlannerTool(s)
      [] name = "risk_assessment"            -> RiskAssessmentTool(s)
      [] name = "market_intelligence"        -> MarketIntelligenceTool(s)
      [] name = "graph_visualization"        -> GraphVisualizationTool(s)

(***************************************************************************)
(* agents/nodes.py is not part of the sources: its nodes and its router    *)
(* are modelled from the specification (sections 4.3 to 4.5, 6 and 7).     *)
(***************************************************************************)
\* UserInputNode: captures the query; may fail.
UserInputNode(s) == {Returned(s), Raised(s, "ExternalServiceError")}

\* IntentClassifierNode: the language model's label, or a failure.
IntentClassifierNode(s) ==
    {Returned([s EXCEPT !.intent = i]) : i \in IntentLabels}
        \cup {Raised(s, "ExternalServiceError")}

\* ContextRetrieverNode: the data snapshot, or a failure.
ContextRetrieverNode(s) ==
    {Returned([s EXCEPT !.context = c]) : c \in AgentContexts}
        \cup {Raised(s, "ExternalServiceError")}

\* ResponseSynthesizerNode: the prose answer, or a failure.
ResponseSynthesizerNode(s) ==
    { Returned([s EXCEPT !.response = "synthesized"]),
      Raised(s, "ExternalServiceError") }

\* A tool whose class is not among the sources: it stores a result or an
\* {"error": ...} payload under its name and registers itself, or fails.
UnsourcedToolCall(name, s) ==
    { Returned(StoreAndRegister(s, name, Payload(name, NoError))),
      Raised(s, "KeyError") }

\* The intent -> module table of the router.
IntentTable ==
    [i \in Intents \ {"GENERAL_INQUIRY"} |->
        CASE i = "EXPENSE_TRACKING"    -> "transaction_analyzer"
          [] i = "BUDGET_ANALYSIS"     -> "budget_manager"
          [] i = "INVESTMENT_INQUIRY"  -> "investment_analyzer"
          [] i = "GOAL_TRACKING"       -> "goal_tracker"
          [] i = "FINANCIAL_INSIGHTS"  -> "financial_insights"
          [] i = "RISK_ASSESSMENT"     -> "risk_assessment"
          [] i = "MARKET_INTELLIGENCE" -> "market_intelligence"
          [] i = "ADVANCED_PLANNING"   -> "advanced_financial_planner"]

\* route_by_intent: the table, then keyword matching for a label outside the
\* taxonomy, then the default path.
route_by_intent(s) ==
    IF s.intent \in DOMAIN IntentTable THEN IntentTable[s.intent]
    ELSE IF s.intent = "UNRECOGNIZED" /\ "workflow" \in s.user_query
         THEN "graph_visualization"
         ELSE "response_synthesizer"

(***************************************************************************)
(* agents/finance_agent.py: FinanceAgent.setup_graph                       *)
(***************************************************************************)
EntryPoint == "user_input"

END == "END"

\* add_conditional_edges: the path map from the router's answer to a node.
ConditionalEdges ==
    [r \in ToolNodes \cup {"response_synthesizer"} |-> r]

\* A graph whose tool nodes were wired straight to END.
ToolEdgeToEnd(tool) == "END"

\* A graph whose tool nodes led on to financial_insights before the
\* synthesizer.
ToolEdgeViaInsights(tool) ==
    IF tool = "financial_insights" THEN "response_synthesizer"
    ELSE "financial_insights"

\* add_edge(tool, "response_synthesizer"), for every tool node.
ToolEdge(tool) == "response_synthesizer"

\* add_edge for the processing nodes.
ProcessingEdge(node) ==
    CASE node = "user_input"           -> "intent_classifier"
      [] node = "intent_classifier"    -> "context_retriever"
      [] node = "response_synthesizer" -> END

\* The node the compiled graph runs after `node`, in the state it left.
NextNode(node, s) ==
    IF node = "context_retriever" THEN ConditionalEdges[route_by_intent(s)]
    ELSE IF node \in ToolNodes THEN ToolEdge(node)
    ELSE ProcessingEdge(node)

\* The callable add_node registered under a node's name.
NodeCall(node, s) ==
    CASE node = "user_input"           -> UserInputNode(s)
      [] node = "intent_classifier"    -> IntentClassifierNode(s)
      [] node = "context_retriever"    -> ContextRetrieverNode(s)
      [] node = "response_synthesizer" -> ResponseSynthesizerNode(s)
      [] node \in SourceTools          -> {SourceToolCall(node, s)}
      [] OTHER                         -> UnsourcedToolCall(node, s)

(***************************************************************************)
(* agents/finance_agent.py: FinanceAgent.process_query and                 *)
(* process_query_sync (the same body, awaited or not).                     *)
(***************************************************************************)
Queries == {1, 2}

\* List identities: the caller's lists, one list a call may create, or None.
NoneRef == <<"None", 0>>

\* A history the caller holds (a stored session), and an empty list.
CallerHistory == <<"caller", 1>>
CallerEmpty   == <<"caller", 2>>

CallerRefs == {CallerHistory, CallerEmpty}

\* The object a literal [] or {} evaluated in call q creates for a field.
Fresh(q, field) == <<field, q>>

ListRefs == CallerRefs \cup {Fresh(q, "messages") : q \in Queries}

\* conversation_history or []
HistoryOrNew(q, a, h) ==
    IF a # NoneRef /\ h[a] # <<>> THEN a ELSE Fresh(q, "messages")

\* The identities of the containers of initial_state.
InitialRefs(q, a, h) ==
    [messages         |-> HistoryOrNew(q, a, h),
     context          |-> Fresh(q, "context"),
     tools_used       |-> Fresh(q, "tools_used"),
     analysis_results |-> Fresh(q, "analysis_results")]

\* The values of initial_state.
InitialState(user_query) ==
    [user_query       |-> user_query,
     intent           |-> "",
     context          |-> [investments |-> "absent"],
     tools_used       |-> <<>>,
     analysis_results |-> EmptyDict,
     response         |-> ""]

NoEnvelope ==
    [response |-> "", intent |-> "", tools_used |-> <<>>,
     analysis_results |-> EmptyDict, conversation_history |-> NoneRef]

\* The dict returned after ainvoke / invoke.
SuccessEnvelope(final_state, messages) ==
    [response             |-> final_state.response,
     intent               |-> final_state.intent,
     tools_used           |-> final_state.tools_used,
     analysis_results     |-> final_state.analysis_results,
     conversation_history |-> messages]

\* The dict returned by the except clause.
ErrorEnvelope(failed_state, messages) ==
    [response             |-> "I encountered an error processing your request",
     intent               |-> "ERROR",
     tools_used           |-> <<>>,
     analysis_results     |-> EmptyDict,
     conversation_history |-> messages]

\* The classes `except Exception` catches: every exception a node raises
\* derives from Exception.
ExceptionSubclasses == {"AttributeError", "KeyError", "ExternalServiceError"}

\* A handler that caught only the failures of the language-model service.
CaughtServiceErrorsOnly(exc) == exc = "ExternalServiceError"

CaughtByExcept(exc) == exc \in ExceptionSubclasses

\* process_query up to the await: initial_state is built and the user
\* message is appended to its message list.
ProcessQuery(q) ==
    /\ pc[q] = "idle"
    /\ \E user_query \in AgentQueries, a \in CallerRefs \cup {NoneRef} :
         LET r == InitialRefs(q, a, heap) IN
           /\ arg' = [arg EXCEPT ![q] = a]
           /\ refs' = [refs EXCEPT ![q] = r]
           /\ st' = [st EXCEPT ![q] = InitialState(user_query)]
           /\ heap' = [heap EXCEPT ![r.messages] = Append1(@, "human")]
    /\ pc' = [pc EXCEPT ![q] = EntryPoint]
    /\ UNCHANGED <<env, trace, toolVars, chatVars, scoreVars>>

\* One node of the graph runs for query q. A node that raises ends ainvoke
\* with the exception: the except clause answers it with the error envelope
\* ("raised"), and an exception it does not catch reaches the caller
\* ("propagated"). A run that reaches END is answered from the final state.
RunNode(q) ==
    /\ pc[q] \in GraphNodes
    /\ \E o \in NodeCall(pc[q], st[q]) :
         LET next == NextNode(pc[q], o.state) IN
           /\ st' = [st EXCEPT ![q] = o.state]
           /\ trace' = [trace EXCEPT ![q] = Append1(@, pc[q])]
           /\ pc' = [pc EXCEPT ![q] =
                       IF ~o.raised THEN next
                       ELSE IF CaughtByExcept(o.exc) THEN "raised"
                       ELSE "propagated"]
           /\ env' = [env EXCEPT ![q] =
                        IF o.raised /\ CaughtByExcept(o.exc)
                        THEN ErrorEnvelope(o.state, refs[q].messages)
                        ELSE IF ~o.raised /\ next = END
                             THEN SuccessEnvelope(o.state, refs[q].messages)
                             ELSE @]
    /\ UNCHANGED <<refs, arg, heap, toolVars, chatVars, scoreVars>>

AgentInit ==
    /\ pc = [q \in Queries |-> "idle"]
    /\ st = [q \in Queries |-> InitialState({})]
    /\ refs = [q \in Queries |-> [messages |-> NoneRef, context |-> NoneRef,
                                  tools_used |-> NoneRef,
                                  analysis_results |-> NoneRef]]
    /\ arg = [q \in Queries |-> NoneRef]
    /\ env = [q \in Queries |-> NoEnvelope]
    /\ trace = [q \in Queries |-> <<>>]
    /\ heap = [r \in ListRefs |-> IF r = CallerHistory THEN <<"earlier">> ELSE <<>>]

(***************************************************************************)
(* ToolSpec: the module objects called directly on one WorkflowState, as   *)
(* a caller of the tools package (or a graph that routes twice) does.      *)
(***************************************************************************)
MaxCalls == 3

ToolQueries ==
    { {}, {"performance"}, {"best", "gains"}, {"top"}, {"breakdown", "worst"} }

ToolContexts == [investments : InvestmentKinds]

ToolInit ==
    /\ ws \in { [InitialState(uq) EXCEPT !.context = c] :
                  uq \in ToolQueries, c \in ToolContexts }
    /\ calls = <<>>

\* module(state): the state is mutated in place, also by a call that raises.
Invoke(m) ==
    /\ Len(calls) < MaxCalls
    /\ LET o == SourceToolCall(m, ws) IN
         /\ ws' = o.state
         /\ calls' = Append1(calls, [module |-> m, raised |-> o.raised])
    /\ UNCHANGED <<agentVars, chatVars, scoreVars>>

ToolIdle ==
    /\ ws = InitialState({})
    /\ calls = <<>>

(***************************************************************************)
(* ChatSpec: api/routers/chat_router.py, chat_with_agent.                  *)
(* core/langgraph_workflow.py and GroqClient.extract_action are not part   *)
(* of the sources: the workflow's result and the extracted action are      *)
(* inputs, and either call may fail.                                       *)
(***************************************************************************)
Explanation(step, what, action, outcome) ==
    [step |-> step, what |-> what, action |-> action, outcome |-> outcome]

\* What finance_workflow.run_async may hand back.
WorkflowResults ==
    [response         : {"answer"},
     intent           : {"EXPENSE_TRACKING", "GENERAL_INQUIRY"},
     tools_used       : {<<>>, <<"budget_manager">>, <<"action_executor">>},
     analysis_results : {EmptyDict,
                         DictSet(EmptyDict, "budget_manager",
                                 Payload("budget", NoError))},
     explanations     : {<<>>,
                         <<Explanation("intent_classifier", "classified", "", "")>>}]

\* What groq_client.extract_action may hand back: {"action": ..., "params": ...}.
ChatActions ==
    {"none", "add_transaction", "update_goal", "delete_budget", "transfer_funds"}

\* params: complete and well-typed, with a value float()/int()/strptime
\* rejects, or without an "id".
ParamKinds == {"valid", "invalid", "no_id"}

\* The database at the time of the action: the row exists, it does not, or
\* the session fails.
DbKinds == {"found", "missing", "error"}

UserIds == {"default", "7", "abc"}

AddActions    == {"add_transaction"}
TargetActions == {"update_goal", "delete_budget"}

\* Lines 97-179: the outcome of the try block before the trace is written:
\* an exception, action_result None, or action_result {"status": "ok", ...}.
ExecuteAction(user_id, action, params, db) ==
    IF user_id = "abc" THEN "raised"            \* int(request.user_id)
    ELSE IF user_id = "default" THEN "none"     \* uid is None
    ELSE IF action \in AddActions
         THEN IF params = "invalid" \/ db = "error" THEN "raised" ELSE "ok"
    ELSE IF action \in TargetActions /\ params # "no_id"
         THEN IF params = "invalid" \/ db = "error" THEN "raised"
              ELSE IF db = "missing" THEN "none" ELSE "ok"
    ELSE "none"

\* Lines 181-190: the action is added to the trace and to tools_used.
RecordExecuted(result, action) ==
    [result EXCEPT
       !.explanations =
           Append1(@, Explanation("action_executor", "Executed", action, "ok")),
       !.tools_used =
           IF \E i \in 1..Len(@) : @[i] = "action_executor"
           THEN @ ELSE Append1(@, "action_executor")]

\* An except clause that also registered the executor as a tool.
RecordFailedAndRegister(result, action) ==
    [result EXCEPT
       !.explanations =
           Append1(@, Explanation("action_executor", "Attempted but failed",
                                  action, "")),
       !.tools_used = Append1(@, "action_executor")]

\* Lines 191-196: the except clause records the failure in the trace.
RecordFailed(result, action) ==
    [result EXCEPT
       !.explanations =
           Append1(@, Explanation("action_executor", "Attempted but failed",
                                  action, ""))]

\* Lines 95-196: result after the action block.
AfterAction(result, user_id, action, params, db) ==
    IF action = "none" THEN result
    ELSE CASE ExecuteAction(user_id, action, params, db) = "ok"
                -> RecordExecuted(result, action)
           [] ExecuteAction(user_id, action, params, db) = "raised"
                -> RecordFailed(result, action)
           [] OTHER -> result

\* Lines 198-211: the response body.
ChatResponse(result) ==
    [response         |-> result.response,
     intent           |-> result.intent,
     tools_used       |-> result.tools_used,
     analysis_results |-> result.analysis_results,
     explanations     |-> result.explanations]

NoResult ==
    [response |-> "", intent |-> "", tools_used |-> <<>>,
     analysis_results |-> EmptyDict, explanations |-> <<>>]

ChatIdle ==
    chat = [pc |-> "start", user_id |-> "default", workflow |-> NoResult,
            action |-> "none", exec |-> "none", body |-> NoResult]

\* The request arrives; the state is built and run_async is awaited.
ChatRequest ==
    /\ chat.pc = "start"
    /\ \E u \in UserIds : chat' = [chat EXCEPT !.pc = "workflow", !.user_id = u]
    /\ UNCHANGED <<agentVars, toolVars, scoreVars>>

\* run_async returns (extract_action is awaited) or raises (HTTP 500).
ChatWorkflow ==
    /\ chat.pc = "workflow"
    /\ \/ \E r \in WorkflowResults :
            chat' = [chat EXCEPT !.pc = "extract", !.workflow = r]
       \/ chat' = [chat EXCEPT !.pc = "http500"]
    /\ UNCHANGED <<agentVars, toolVars, scoreVars>>

\* extract_action returns; the action is executed and the body is returned.
\* A failing extract_action leaves the handler through the outer except.
ChatAction ==
    /\ chat.pc = "extract"
    /\ \/ \E a \in ChatActions, p \in ParamKinds, d \in DbKinds :
            chat' = [chat EXCEPT
                       !.pc = "done",
                       !.action = a,
                       !.exec = IF a = "none" THEN "none"
                                ELSE ExecuteAction(chat.user_id, a, p, d),
                       !.body = ChatResponse(
                                  AfterAction(chat.workflow, chat.user_id, a, p, d))]
       \/ chat' = [chat EXCEPT !.pc = "http500"]
    /\ UNCHANGED <<agentVars, toolVars, scoreVars>>

(***************************************************************************)
(* Exact rationals <<n, d>> with d > 0, kept in lowest terms.              *)
(***************************************************************************)
Abs(x) == IF x < 0 THEN -x ELSE x

RECURSIVE GCD(_, _)
GCD(a, b) == IF b = 0 THEN a ELSE GCD(b, a % b)

Rat(n, d) ==
    LET g == GCD(Abs(n), d) IN <<n \div g, d \div g>>

Zero == <<0, 1>>

Int2Rat(n) == <<n, 1>>

RatLE(a, b) == a[1] * b[2] <= b[1] * a[2]
RatLT(a, b) == a[1] * b[2] < b[1] * a[2]
RatGE(a, b) == RatLE(b, a)
RatGT(a, b) == RatLT(b, a)

RatAdd(a, b) == Rat(a[1] * b[2] + b[1] * a[2], a[2] * b[2])
RatSub(a, b) == Rat(a[1] * b[2] - b[1] * a[2], a[2] * b[2])
RatMul(a, b) == Rat(a[1] * b[1], a[2] * b[2])

\* a / b for b > 0
RatDiv(a, b) == Rat(a[1] * b[2], a[2] * b[1])

RatMin(a, b) == IF RatLE(a, b) THEN a ELSE b
RatMax(a, b) == IF RatGE(a, b) THEN a ELSE b

(***************************************************************************)
(* Record collections.                                                     *)
(*   transactions: None, or a DataFrame of rows (amount, month), ordered   *)
(*                 by date;                                                *)
(*   investments:  None, or the dict {"investments": [holding, ...]};      *)
(*   budget:       None, or {"monthly_budgets": {month: {"categories":     *)
(*                 {name: {"percentage_used": p}}}}}, with or without an   *)
(*                 entry for the current month.                            *)
(***************************************************************************)
MaxTransactions == 2
MaxCategories == 2
MaxHoldings == 10

Amounts == {-90, -85, -50, 100}
Months == {1, 2}

Rows == [amount : Amounts, month : Months]

SeqsUpTo(S, n) == UNION {[1..k -> S] : k \in 0..n}

OrderedByDate(rows) ==
    \A i \in 1..Len(rows) - 1 : rows[i].month <= rows[i + 1].month

TransactionInputs ==
    {[present |-> FALSE, rows |-> <<>>]} \cup
    {[present |-> TRUE, rows |-> r] :
        r \in {x \in SeqsUpTo(Rows, MaxTransactions) : OrderedByDate(x)}}

\* A holding is a dict; inv.get(key, 0) answers 0 for a missing key.
Get(inv, key) == IF key \in DOMAIN inv THEN inv[key] ELSE 0

Holding(value) == [current_value |-> value]

InvestmentInputs ==
    {[present |-> FALSE, holdings |-> <<>>]} \cup
    {[present |-> TRUE, holdings |-> [i \in 1..n |-> Holding(100)]] :
        n \in 0..MaxHoldings}

PercentagesUsed == {0, 100, 125, 160}

BudgetInputs ==
    {[present |-> FALSE, has_month |-> FALSE, categories |-> <<>>],
     [present |-> TRUE, has_month |-> FALSE, categories |-> <<>>]} \cup
    {[present |-> TRUE, has_month |-> TRUE, categories |-> c] :
        c \in SeqsUpTo(PercentagesUsed, MaxCategories)}

RECURSIVE SumSeq(_)
SumSeq(xs) == IF xs = <<>> THEN 0 ELSE Head(xs) + SumSeq(Tail(xs))

\* transactions is None or transactions.empty
NoTransactions(transactions) ==
    ~transactions.present \/ transactions.rows = <<>>

\* transactions[transactions["amount"] > 0]["amount"].sum()
IncomeSum(transactions) ==
    SumSeq([i \in 1..Len(transactions.rows) |->
              IF transactions.rows[i].amount > 0
              THEN transactions.rows[i].amount ELSE 0])

\* transactions[transactions["amount"] < 0]["amount"].sum()
ExpenseSum(transactions) ==
    SumSeq([i \in 1..Len(transactions.rows) |->
              IF transactions.rows[i].amount < 0
              THEN transactions.rows[i].amount ELSE 0])

\* len(transactions["date"].dt.to_period("M").unique())
MonthCount(transactions) ==
    Cardinality({transactions.rows[i].month : i \in 1..Len(transactions.rows)})

Max2(a, b) == IF a >= b THEN a ELSE b

\* investments and investments.get("investments")
HasHoldings(investments) ==
    investments.present /\ investments.holdings # <<>>

\* sum(inv.get("current_value", 0) for inv in investments["investments"])
TotalCurrentValue(investments) ==
    SumSeq([i \in 1..Len(investments.holdings) |->
              Get(investments.holdings[i], "current_value")])

(***************************************************************************)
(* tools/advanced_financial_planner.py: the metric primitives.             *)
(***************************************************************************)
\* A savings rate without the floor at zero.
SavingsRateUnfloored(transactions) ==
    IF NoTransactions(transactions) THEN Zero
    ELSE LET income   == IncomeSum(transactions)
             expenses == Abs(ExpenseSum(transactions))
         IN IF income <= 0 THEN Zero
            ELSE Rat(income - expenses, income)

_calculate_savings_rate(transactions) ==
    IF NoTransactions(transactions) THEN Zero
    ELSE LET income   == IncomeSum(transactions)
             expenses == Abs(ExpenseSum(transactions))
         IN IF income <= 0 THEN Zero
            ELSE RatMax(Zero, Rat(income - expenses, income))

\* An emergency fund that counted as six months when nothing is spent.
EmergencyFundCoveredWhenIdle(transactions, investments) ==
    IF NoTransactions(transactions) THEN Int2Rat(6)
    ELSE LET monthly_expenses ==
                 Rat(Abs(ExpenseSum(transactions)),
                     Max2(1, MonthCount(transactions)))
             liquid_assets ==
                 IF HasHoldings(investments)
                 THEN Rat(TotalCurrentValue(investments), 2)
                 ELSE Zero
         IN IF RatLE(monthly_expenses, Zero) THEN Int2Rat(6)
            ELSE RatDiv(liquid_assets, monthly_expenses)

_assess_emergency_fund(transactions, investments) ==
    IF NoTransactions(transactions) THEN Zero
    ELSE LET monthly_expenses ==
                 Rat(Abs(ExpenseSum(transactions)),
                     Max2(1, MonthCount(transactions)))
             liquid_assets ==
                 IF HasHoldings(investments)
                 THEN Rat(TotalCurrentValue(investments), 2)
                 ELSE Zero
         IN IF RatLE(monthly_expenses, Zero) THEN Zero
            ELSE RatDiv(liquid_assets, monthly_expenses)

\* _assess_retirement_readiness: the assumed ages.
current_age == 35
retirement_age == 65
years_to_retirement == retirement_age - current_age

\* The estimate of the current retirement savings.
retirement_savings(investments) ==
    IF HasHoldings(investments)
    THEN Int2Rat(TotalCurrentValue(investments)) ELSE Zero

\* abs(expenses) * 12 / len(months), for a frame that is not empty.
annual_expenses(transactions) ==
    IF NoTransactions(transactions) THEN Zero
    ELSE Rat(Abs(ExpenseSum(transactions)) * 12, MonthCount(transactions))

\* required_corpus = annual_expenses * 25
required_corpus(transactions) ==
    RatMul(annual_expenses(transactions), Int2Rat(25))

\* A projection that compared against the share of years still to go.
OnTrackByYearsRemaining(savings, corpus) ==
    IF years_to_retirement > 0
    THEN RatGE(savings, RatDiv(RatMul(corpus, Int2Rat(years_to_retirement)),
                               Int2Rat(retirement_age)))
    ELSE FALSE

\* retirement_savings >= required_corpus
\*     * (retirement_age - years_to_retirement) / retirement_age
on_track(savings, corpus) ==
    IF years_to_retirement > 0
    THEN RatGE(savings,
               RatDiv(RatMul(corpus,
                             Int2Rat(retirement_age - years_to_retirement)),
                      Int2Rat(retirement_age)))
    ELSE FALSE

_assess_retirement_readiness(transactions, investments) ==
    [current_savings |-> retirement_savings(investments),
     required_corpus |-> required_corpus(transactions),
     years_to_retirement |-> years_to_retirement,
     monthly_savings_needed |->
         IF years_to_retirement > 0
         THEN RatMax(Zero,
                     RatDiv(RatSub(required_corpus(transactions),
                                   retirement_savings(investments)),
                            Int2Rat(years_to_retirement * 12)))
         ELSE Zero,
     on_track |-> on_track(retirement_savings(investments),
                           required_corpus(transactions))]

\* A category score without the floor at zero.
CategoryScoreUnfloored(percentage_used) ==
    IF percentage_used <= 100
    THEN IF 110 - percentage_used <= 100 THEN 110 - percentage_used ELSE 100
    ELSE 50 - (percentage_used - 100)

\* One category of _calculate_budget_adherence_score.
CategoryScore(percentage_used) ==
    IF percentage_used <= 100
    THEN IF 110 - percentage_used <= 100 THEN 110 - percentage_used ELSE 100
    ELSE Max2(0, 50 - (percentage_used - 100))

_calculate_budget_adherence_score(transactions, budget) ==
    IF ~budget.has_month \/ budget.categories = <<>> THEN Zero
    ELSE LET total_score ==
                 SumSeq([i \in 1..Len(budget.categories) |->
                           CategoryScore(budget.categories[i])])
             category_count == Len(budget.categories)
         IN Rat(total_score, Max2(1, category_count) * 4)

_calculate_diversification_score(investments) ==
    IF investments.holdings = <<>> THEN 0
    ELSE LET num_investments == Len(investments.holdings)
         IN IF num_investments >= 10 THEN 25
            ELSE IF num_investments >= 5 THEN 20
            ELSE IF num_investments >= 3 THEN 15
            ELSE 10

(***************************************************************************)
(* tools/advanced_financial_planner.py: _calculate_financial_health_score. *)
(* The four additions to `score`, in the order of the code.                *)
(***************************************************************************)
\* A tier table with the two upper awards exchanged.
EmergencyFundPointsSwapped(transactions, investments) ==
    LET emergency_months == _assess_emergency_fund(transactions, investments)
    IN IF RatGE(emergency_months, Int2Rat(6)) THEN 15
       ELSE IF RatGE(emergency_months, Int2Rat(3)) THEN 25
       ELSE IF RatGE(emergency_months, Int2Rat(1)) THEN 10
       ELSE 0

EmergencyFundPoints(transactions, investments) ==
    LET emergency_months == _assess_emergency_fund(transactions, investments)
    IN IF RatGE(emergency_months, Int2Rat(6)) THEN 25
       ELSE IF RatGE(emergency_months, Int2Rat(3)) THEN 15
       ELSE IF RatGE(emergency_months, Int2Rat(1)) THEN 10
       ELSE 0

SavingsRatePoints(transactions) ==
    LET savings_rate == _calculate_savings_rate(transactions)
    IN IF RatGE(savings_rate, Rat(20, 100)) THEN 25
       ELSE IF RatGE(savings_rate, Rat(15, 100)) THEN 20
       ELSE IF RatGE(savings_rate, Rat(10, 100)) THEN 15
       ELSE IF RatGE(savings_rate, Rat(5, 100)) THEN 10
       ELSE 0

BudgetAdherencePoints(transactions, budget) ==
    IF budget.present /\ ~NoTransactions(transactions)
    THEN RatMin(Int2Rat(25),
                _calculate_budget_adherence_score(transactions, budget))
    ELSE Zero

DiversificationPoints(investments) ==
    IF HasHoldings(investments)
    THEN IF _calculate_diversification_score(investments) <= 25
         THEN _calculate_diversification_score(investments) ELSE 25
    ELSE 5

_calculate_financial_health_score(transactions, budget, investments) ==
    LET score ==
          RatAdd(Int2Rat(EmergencyFundPoints(transactions, investments)
                         + SavingsRatePoints(transactions)
                         + DiversificationPoints(investments)),
                 BudgetAdherencePoints(transactions, budget))
    IN RatMin(Int2Rat(100), score)

(***************************************************************************)
(* ScoreSpec: the scoring functions applied to every input of the bounded  *)
(* record collections.                                                     *)
(***************************************************************************)
NoScores ==
    [computed |-> FALSE,
     financial_health_score |-> Zero,
     emergency_points |-> Zero,
     savings_points |-> Zero,
     budget_points |-> Zero,
     diversification_points |-> Zero,
     savings_rate |-> Zero,
     emergency_fund_months |-> Zero]

ScoreInit ==
    /\ inp \in [transactions : TransactionInputs,
                budget : BudgetInputs,
                investments : InvestmentInputs]
    /\ out = NoScores

\* _comprehensive_financial_analysis: the score and the primitives it reports.
ComputeScores ==
    /\ ~out.computed
    /\ out' =
         [computed |-> TRUE,
          financial_health_score |->
              _calculate_financial_health_score(
                  inp.transactions, inp.budget, inp.investments),
          emergency_points |->
              Int2Rat(EmergencyFundPoints(inp.transactions, inp.investments)),
          savings_points |-> Int2Rat(SavingsRatePoints(inp.transactions)),
          budget_points |-> BudgetAdherencePoints(inp.transactions, inp.budget),
          diversification_points |->
              Int2Rat(DiversificationPoints(inp.investments)),
          savings_rate |-> _calculate_savings_rate(inp.transactions),
          emergency_fund_months |->
              _assess_emergency_fund(inp.transactions, inp.investments)]
    /\ UNCHANGED <<inp, agentVars, toolVars, chatVars>>

ScoreIdle ==
    /\ inp = [transactions |-> [present |-> FALSE, rows |-> <<>>],
              budget |-> [present |-> FALSE, has_month |-> FALSE,
                          categories |-> <<>>],
              investments |-> [present |-> FALSE, holdings |-> <<>>]]
    /\ out = NoScores

(***************************************************************************)
(* The specifications.                                                     *)
(***************************************************************************)
Init == AgentInit /\ ToolIdle /\ ChatIdle /\ ScoreIdle

Next == \E q \in Queries : ProcessQuery(q) \/ RunNode(q)

Spec == Init /\ [][Next]_vars

\* One run of the graph, under the event loop's scheduling: a coroutine
\* that is ready to take its next step eventually takes it.
SingleNext == ProcessQuery(1) \/ RunNode(1)

FairSpec == Init /\ [][SingleNext]_vars /\ WF_vars(SingleNext)

AgentIdle ==
    /\ pc = [q \in Queries |-> "idle"]
    /\ st = [q \in Queries |-> InitialState({})]
    /\ refs = [q \in Queries |-> [messages |-> NoneRef, context |-> NoneRef,
                                  tools_used |-> NoneRef,
                                  analysis_results |-> NoneRef]]
    /\ arg = [q \in Queries |-> NoneRef]
    /\ env = [q \in Queries |-> NoEnvelope]
    /\ trace = [q \in Queries |-> <<>>]
    /\ heap = [r \in ListRefs |-> <<>>]

ToolSpecInit == AgentIdle /\ ToolInit /\ ChatIdle /\ ScoreIdle

ToolNext == \E m \in SourceTools : Invoke(m)

ToolSpec == ToolSpecInit /\ [][ToolNext]_vars

ChatInit == AgentIdle /\ ToolIdle /\ ChatIdle /\ ScoreIdle

ChatNext == ChatRequest \/ ChatWorkflow \/ ChatAction

ChatSpec == ChatInit /\ [][ChatNext]_vars

ScoreSpecInit == AgentIdle /\ ToolIdle /\ ChatIdle /\ ScoreInit

ScoreNext == ComputeScores

ScoreSpec == ScoreSpecInit /\ [][ScoreNext]_vars

(***************************************************************************)
(* Claims about the workflow (Spec, FairSpec).                             *)
(***************************************************************************)
Finished(q) == pc[q] \in {END, "raised", "propagated"}

\* The path of a run that reaches END: the three processing nodes, at most
\* one tool node, the synthesizer.
PathPrefix == <<"user_input", "intent_classifier", "context_retriever">>

ExpectedPath(s) ==
    PathPrefix
      \o (IF route_by_intent(s) = "response_synthesizer"
          THEN <<>> ELSE <<route_by_intent(s)>>)
      \o <<"response_synthesizer">>

PathFollowed ==
    \A q \in Queries :
       /\ IsPrefix(trace[q], PathPrefix)
            \/ (IsPrefix(PathPrefix, trace[q])
                  /\ IsPrefix(trace[q], ExpectedPath(st[q])))
       /\ pc[q] = END => trace[q] = ExpectedPath(st[q])
       /\ pc[q] = END /\ route_by_intent(st[q]) = "response_synthesizer"
            => /\ trace[q] = PathPrefix \o <<"response_synthesizer">>
               /\ st[q].tools_used = <<>>
               /\ st[q].analysis_results = EmptyDict

\* C2: for every intent value the run passes user_input, intent_classifier
\* and context_retriever in that order, then at most one tool node, then
\* response_synthesizer, then END; an intent that maps to no module goes
\* from context_retriever straight to response_synthesizer with no module
\* invoked; and every started run that no node aborts by raising reaches END.
C2_WorkflowReachesEnd ==
    /\ []PathFollowed
    /\ \A q \in Queries :
         (pc[q] = EntryPoint) ~> (pc[q] = END \/ pc[q] \in {"raised", "propagated"})

\* A run with an intent that maps to no module, at END.
C2_Witness ==
    /\ pc[1] = END
    /\ st[1].intent = "GENERAL_INQUIRY"
    /\ trace[1] = PathPrefix \o <<"response_synthesizer">>

Last(xs) == xs[Len(xs)]

Ran(q, node) == \E i \in 1..Len(trace[q]) : trace[q][i] = node

EnvelopeKeys == {"response", "intent", "tools_used", "analysis_results"}

\* C1: whichever node raises, no exception reaches the caller of
\* process_query, and every finished call has returned an envelope with
\* response, intent, tools_used and analysis_results.
C1_AlwaysEnvelope ==
    \A q \in Queries :
       /\ pc[q] # "propagated"
       /\ pc[q] \in {END, "raised"}
            => /\ EnvelopeKeys \subseteq DOMAIN env[q]
               /\ env[q].response # ""
               /\ env[q].intent \in IntentLabels \cup {"ERROR"}

\* A tool node raised in one call and the intent classifier in another.
C1_Witness ==
    /\ pc[1] = "raised" /\ Last(trace[1]) \in ToolNodes
    /\ pc[2] = "raised" /\ Last(trace[2]) = "intent_classifier"

\* C3 (as claimed): a failure after modules ran returns intent "ERROR" with
\* the tools_used and analysis_results of the modules that had run.
C3_PartialResultsKept ==
    \A q \in Queries :
       pc[q] = "raised" /\ st[q].tools_used # <<>>
         => /\ env[q].intent = "ERROR"
            /\ env[q].tools_used = st[q].tools_used
            /\ env[q].analysis_results = st[q].analysis_results

\* C6: after the investment module ran on a context without investments,
\* its entry is {"error": "No investment data available"}, it raised
\* nothing, the next node is the response synthesizer, and the finished call
\* carries a response.
C6_NoInvestmentsDegrades ==
    \A q \in Queries :
       Ran(q, "investment_analyzer") /\ NoInvestments(st[q].context)
         => /\ "investment_analyzer" \in DOMAIN st[q].analysis_results
            /\ st[q].analysis_results["investment_analyzer"]
                 = Payload("", "No investment data available")
            /\ pc[q] # "propagated"
            /\ Last(trace[q]) = "investment_analyzer"
                 => pc[q] = "response_synthesizer"
            /\ Finished(q)
                 => Last(trace[q]) = "response_synthesizer" /\ env[q].response # ""
            /\ pc[q] = END
                 => /\ env[q].response = "synthesized"
                    /\ env[q].analysis_results["investment_analyzer"].error
                         = "No investment data available"

\* "How are my investments performing?" with no investments, answered.
C6_Witness ==
    /\ pc[1] = END
    /\ Ran(1, "investment_analyzer")
    /\ AnyWordIn(PerformanceWords, st[1].user_query)
    /\ NoInvestments(st[1].context)

ContainerFields == {"messages", "context", "tools_used", "analysis_results"}

\* C8 (as claimed): every call starts from empty intent, context, tools_used
\* and analysis_results, and no container of its state is the caller's
\* argument or a container of another call's state.
C8_NoSharedState ==
    \A q \in Queries :
       /\ pc[q] = EntryPoint
            => /\ st[q].intent = ""
               /\ st[q].tools_used = <<>>
               /\ st[q].analysis_results = EmptyDict
       /\ pc[q] # "idle"
            => /\ refs[q].messages # arg[q]
               /\ \A p \in Queries \ {q}, f \in ContainerFields :
                     pc[p] # "idle" => refs[p][f] # refs[q][f]

(***************************************************************************)
(* Properties of the modules called in isolation (ToolSpec).               *)
(***************************************************************************)
Registered(module) ==
    \E i \in 1..Len(ws.tools_used) : ws.tools_used[i] = module

\* C4 (as claimed): a module that ran on missing data and recorded the
\* "error" entry in analysis_results has still appended its own name to
\* tools_used.
C4_NoDataStillRegisters ==
    \A m \in DOMAIN ws.analysis_results :
       ws.analysis_results[m].error # NoError => Registered(m)

\* C5 (as claimed): tools_used holds no name twice, also when a module is
\* invoked twice on the same state.
C5_NoDuplicateTools ==
    \A i, j \in 1..Len(ws.tools_used) :
       ws.tools_used[i] = ws.tools_used[j] => i = j

\* One call of module m, from the state before to the state after.
ModuleFrame(m) ==
    /\ DOMAIN ws' = DOMAIN ws
    /\ \A f \in DOMAIN ws \ {"analysis_results", "tools_used"} : ws'[f] = ws[f]
    /\ DOMAIN ws'.analysis_results \subseteq DOMAIN ws.analysis_results \cup {m}
    /\ \A k \in DOMAIN ws.analysis_results \ {m} :
          /\ k \in DOMAIN ws'.analysis_results
          /\ ws'.analysis_results[k] = ws.analysis_results[k]
    /\ IsPrefix(ws.tools_used, ws'.tools_used)
    /\ \A i \in (Len(ws.tools_used) + 1)..Len(ws'.tools_used) :
          ws'.tools_used[i] = m

InPoints(x, lo, hi) == RatGE(x, Int2Rat(lo)) /\ RatLE(x, Int2Rat(hi))

\* C10: the financial health score lies in [0, 100], and each of the four
\* sub-scores (emergency fund, savings rate, budget adherence,
\* diversification) contributes between 0 and 25 points.
C10_HealthScoreRange ==
    out.computed
      => /\ InPoints(out.financial_health_score, 0, 100)
         /\ InPoints(out.emergency_points, 0, 25)
         /\ InPoints(out.savings_points, 0, 25)
         /\ InPoints(out.budget_points, 0, 25)
         /\ InPoints(out.diversification_points, 0, 25)

\* All four sub-scores at their cap.
C10_Witness ==
    /\ out.computed
    /\ out.financial_health_score = Int2Rat(100)
    /\ out.emergency_points = Int2Rat(25)
    /\ out.budget_points = Int2Rat(25)

(***************************************************************************)
(* Properties of the investment module's choice of sub-analysis (ToolSpec).*)
(***************************************************************************)
KeywordGroups ==
    << [words |-> {"performance", "how are", "doing"},
        analysis |-> "Portfolio Performance"],
       [words |-> {"gains", "losses", "profit"},
        analysis |-> "Gains & Losses"],
       [words |-> {"diversification", "allocation", "breakdown"},
        analysis |-> "Portfolio Allocation"],
       [words |-> {"best", "worst", "top", "bottom"},
        analysis |-> "Best & Worst Performers"] >>

MatchingGroups(query) ==
    {i \in 1..Len(KeywordGroups) : KeywordGroups[i].words \cap query # {}}

\* C19: the investment module runs exactly one sub-analysis: that of the
\* first keyword group, in the order performance, gains/losses,
\* allocation/diversification, best/worst, with a keyword in the query, and
\* the portfolio summary when no group matches.
C19_FirstKeywordGroupWins ==
    "investment_analyzer" \in DOMAIN ws.analysis_results
      /\ ws.analysis_results["investment_analyzer"].error = NoError
      => LET ran == ws.analysis_results["investment_analyzer"].analysis_type
             hit == MatchingGroups(ws.user_query)
         IN IF hit = {} THEN ran = "Portfolio Summary"
            ELSE \E i \in hit :
                    /\ \A j \in hit : i <= j
                    /\ ran = KeywordGroups[i].analysis

\* A query with keywords of the gains/losses and of the best/worst group.
C19_Witness ==
    /\ Registered("investment_analyzer")
    /\ ws.user_query = {"best", "gains"}
    /\ ws.analysis_results["investment_analyzer"].analysis_type = "Gains & Losses"

(***************************************************************************)
(* tools/investment_analyzer.py: _analyze_best_worst_performers.           *)
(***************************************************************************)
MaxRanked == 6

PercentageChanges == {-5, 0, 12}

\* Non-empty lists of holdings: __call__ returns before the sub-analysis
\* when the list is empty.
RankedInputs ==
    UNION { { [i \in 1..n |-> [symbol |-> i, percentage_change |-> f[i]]] :
                f \in [1..n -> PercentageChanges] } : n \in 1..MaxRanked }

\* One step of an insertion that keeps equal keys in their original order.
RECURSIVE InsertDescending(_, _)
InsertDescending(sorted, inv) ==
    IF sorted = <<>> THEN <<inv>>
    ELSE IF Get(Head(sorted), "percentage_change") >= Get(inv, "percentage_change")
         THEN <<Head(sorted)>> \o InsertDescending(Tail(sorted), inv)
         ELSE <<inv>> \o sorted

RECURSIVE InsertAscending(_, _)
InsertAscending(sorted, inv) ==
    IF sorted = <<>> THEN <<inv>>
    ELSE IF Get(Head(sorted), "percentage_change") <= Get(inv, "percentage_change")
         THEN <<Head(sorted)>> \o InsertAscending(Tail(sorted), inv)
         ELSE <<inv>> \o sorted

\* A sort without reverse=True.
RECURSIVE SortedAscending(_)
SortedAscending(investments) ==
    IF investments = <<>> THEN <<>>
    ELSE InsertAscending(
           SortedAscending(SubSeq(investments, 1, Len(investments) - 1)),
           investments[Len(investments)])

\* sorted(investments, key=percentage_change, reverse=True): stable.
RECURSIVE sorted_by_performance(_)
sorted_by_performance(investments) ==
    IF investments = <<>> THEN <<>>
    ELSE InsertDescending(
           sorted_by_performance(SubSeq(investments, 1, Len(investments) - 1)),
           investments[Len(investments)])

\* sorted_by_performance[:3]
best_performers(ranked) ==
    SubSeq(ranked, 1, IF Len(ranked) < 3 THEN Len(ranked) ELSE 3)

\* sorted_by_performance[-3:]
worst_performers(ranked) ==
    SubSeq(ranked, IF Len(ranked) < 3 THEN 1 ELSE Len(ranked) - 2, Len(ranked))

\* The entry the result lists for a holding.
PerformerEntry(inv) ==
    [symbol |-> Get(inv, "symbol"),
     return_percentage |-> Get(inv, "percentage_change")]

\* round(x, 2) of a difference of whole percentages.
Round2(x) == x

_analyze_best_worst_performers(investments) ==
    LET ranked == sorted_by_performance(investments)
        best   == best_performers(ranked)
        worst  == worst_performers(ranked)
    IN [computed |-> TRUE,
        analysis_type |-> "Best & Worst Performers",
        best_performers  |-> [i \in 1..Len(best) |-> PerformerEntry(best[i])],
        worst_performers |-> [i \in 1..Len(worst) |-> PerformerEntry(worst[i])],
        performance_spread |->
            Round2(Get(ranked[1], "percentage_change")
                     - Get(ranked[Len(ranked)], "percentage_change"))]

(***************************************************************************)
(* RankSpec: the best/worst sub-analysis applied to every list of the      *)
(* bounded holdings.                                                       *)
(***************************************************************************)
NoRanking ==
    [computed |-> FALSE, analysis_type |-> "", best_performers |-> <<>>,
     worst_performers |-> <<>>, performance_spread |-> 0]

RankInit ==
    /\ inp \in [investments : RankedInputs]
    /\ out = NoRanking

AnalyzeBestWorst ==
    /\ ~out.computed
    /\ out' = _analyze_best_worst_performers(inp.investments)
    /\ UNCHANGED <<inp, agentVars, toolVars, chatVars>>

RankSpecInit == AgentIdle /\ ToolIdle /\ ChatIdle /\ RankInit

RankNext == AnalyzeBestWorst

RankSpec == RankSpecInit /\ [][RankNext]_vars

(***************************************************************************)
(* Properties of the best/worst sub-analysis (RankSpec).                   *)
(***************************************************************************)
ChangesOf(investments) ==
    {investments[i].percentage_change : i \in 1..Len(investments)}

\* v is the value at position `rank` of the holdings in descending order.
AtRank(investments, rank, v) ==
    LET above   == Cardinality({i \in 1..Len(investments) :
                                  investments[i].percentage_change > v})
        atLeast == Cardinality({i \in 1..Len(investments) :
                                  investments[i].percentage_change >= v})
    IN above < rank /\ rank <= atLeast

SymbolsOf(entries) == {entries[i].symbol : i \in 1..Len(entries)}

\* C20: the best performers are the first min(3, n) and the worst performers
\* the last min(3, n) holdings in descending order of percentage_change;
\* with fewer than 6 holdings the two lists share holdings and keep them;
\* performance_spread is the highest minus the lowest percentage_change.
C20_BestWorstPerformers ==
    out.computed
      => LET n == Len(inp.investments)
             k == IF n < 3 THEN n ELSE 3
             best  == out.best_performers
             worst == out.worst_performers
         IN /\ Len(best) = k /\ Len(worst) = k
            /\ \A i \in 1..k :
                  /\ AtRank(inp.investments, i, best[i].return_percentage)
                  /\ AtRank(inp.investments, n - k + i, worst[i].return_percentage)
                  /\ inp.investments[best[i].symbol].percentage_change
                       = best[i].return_percentage
                  /\ inp.investments[worst[i].symbol].percentage_change
                       = worst[i].return_percentage
            /\ Cardinality(SymbolsOf(best)) = k
            /\ Cardinality(SymbolsOf(worst)) = k
            /\ n < 6 <=> SymbolsOf(best) \cap SymbolsOf(worst) # {}
            /\ \E hi, lo \in ChangesOf(inp.investments) :
                  /\ \A v \in ChangesOf(inp.investments) : lo <= v /\ v <= hi
                  /\ out.performance_spread = hi - lo

\* Four holdings: two of them are in both lists.
C20_Witness ==
    /\ out.computed
    /\ Len(inp.investments) = 4
    /\ Cardinality(SymbolsOf(out.best_performers)
                     \cap SymbolsOf(out.worst_performers)) = 2
    /\ out.performance_spread = 17

(***************************************************************************)
(* Numbers r + sqrt(v) with r, v rational and v >= 0: the standard         *)
(* deviation of the monthly income is a square root.                       *)
(***************************************************************************)
SurdOfRat(r) == [rat |-> r, root |-> Zero]

SurdRoot(v) == [rat |-> Zero, root |-> v]

\* x * k for an integer k >= 0
SurdTimes(x, k) ==
    [rat |-> RatMul(x.rat, Int2Rat(k)), root |-> RatMul(x.root, Int2Rat(k * k))]

\* x <= c and x >= c for a rational c
SurdLERat(x, c) ==
    LET d == RatSub(c, x.rat)
    IN RatGE(d, Zero) /\ RatLE(x.root, RatMul(d, d))

SurdGERat(x, c) ==
    LET d == RatSub(c, x.rat)
    IN RatLE(d, Zero) \/ RatGE(x.root, RatMul(d, d))

\* min(c, x)
SurdMinRat(c, x) == IF SurdLERat(x, c) THEN x ELSE SurdOfRat(c)

\* x + y where at most one of them has a square root
SurdAdd(x, y) ==
    [rat |-> RatAdd(x.rat, y.rat),
     root |-> IF x.root = Zero THEN y.root ELSE x.root]

RECURSIVE SumRatFn(_)
SumRatFn(f) ==
    IF DOMAIN f = {} THEN Zero
    ELSE LET k == CHOOSE k \in DOMAIN f : TRUE
         IN RatAdd(f[k], SumRatFn([j \in DOMAIN f \ {k} |-> f[j]]))

(***************************************************************************)
(* tools/risk_assessment.py: the metric primitives.                        *)
(***************************************************************************)
\* transactions[amount > 0].groupby(month)["amount"].sum()
MonthlyIncome(transactions) ==
    LET rows == transactions.rows
        months == {rows[i].month : i \in {j \in 1..Len(rows) : rows[j].amount > 0}}
    IN [m \in months |->
          SumSeq([i \in 1..Len(rows) |->
                    IF rows[i].month = m /\ rows[i].amount > 0
                    THEN rows[i].amount ELSE 0])]

\* monthly_income.std() / monthly_income.mean(): std is the sample standard
\* deviation (n - 1 in the denominator).
_calculate_income_volatility(transactions) ==
    IF NoTransactions(transactions) THEN SurdOfRat(Zero)
    ELSE LET monthly_income == MonthlyIncome(transactions)
             n == Cardinality(DOMAIN monthly_income)
         IN IF n < 2 THEN SurdOfRat(Zero)
            ELSE LET mean == RatDiv(SumRatFn([m \in DOMAIN monthly_income |->
                                                Int2Rat(monthly_income[m])]),
                                    Int2Rat(n))
                     variance ==
                         RatDiv(SumRatFn([m \in DOMAIN monthly_income |->
                                   RatMul(RatSub(Int2Rat(monthly_income[m]), mean),
                                          RatSub(Int2Rat(monthly_income[m]), mean))]),
                                Int2Rat(n - 1))
                 IN IF RatGT(mean, Zero)
                    THEN SurdRoot(RatDiv(variance, RatMul(mean, mean)))
                    ELSE SurdOfRat(Zero)

_calculate_emergency_fund_months(transactions, investments) ==
    IF NoTransactions(transactions) THEN Zero
    ELSE LET monthly_expenses ==
                 Rat(Abs(ExpenseSum(transactions)),
                     Max2(1, MonthCount(transactions)))
             liquid_assets ==
                 IF HasHoldings(investments)
                 THEN Rat(TotalCurrentValue(investments) * 3, 10)
                 ELSE Zero
         IN IF RatGT(monthly_expenses, Zero)
            THEN RatDiv(liquid_assets, monthly_expenses)
            ELSE Zero

\* A liquidity tier table with the two middle factors exchanged.
LiquidityRiskSwapped(transactions, investments) ==
    LET emergency_months ==
            _calculate_emergency_fund_months(transactions, investments)
    IN IF RatGE(emergency_months, Int2Rat(6)) THEN Rat(1, 10)
       ELSE IF RatGE(emergency_months, Int2Rat(3)) THEN Rat(6, 10)
       ELSE IF RatGE(emergency_months, Int2Rat(1)) THEN Rat(3, 10)
       ELSE Int2Rat(1)

_calculate_liquidity_risk(transactions, investments) ==
    LET emergency_months ==
            _calculate_emergency_fund_months(transactions, investments)
    IN IF RatGE(emergency_months, Int2Rat(6)) THEN Rat(1, 10)
       ELSE IF RatGE(emergency_months, Int2Rat(3)) THEN Rat(3, 10)
       ELSE IF RatGE(emergency_months, Int2Rat(1)) THEN Rat(6, 10)
       ELSE Int2Rat(1)

\* max(inv.get("current_value", 0) for inv in investments["investments"])
MaxCurrentValue(investments) ==
    CHOOSE v \in {Get(investments.holdings[i], "current_value") :
                    i \in 1..Len(investments.holdings)} :
       \A i \in 1..Len(investments.holdings) :
          Get(investments.holdings[i], "current_value") <= v

_calculate_concentration_risk(investments) ==
    IF investments.holdings = <<>> THEN Zero
    ELSE LET total_value == TotalCurrentValue(investments)
         IN IF total_value <= 0 THEN Zero
            ELSE Rat(MaxCurrentValue(investments), total_value)

\* A count of the categories at or above 100 percent.
BudgetRiskAtOrAbove(transactions, budget) ==
    IF ~budget.present \/ ~budget.has_month \/ budget.categories = <<>> THEN Zero
    ELSE Rat(Cardinality({i \in 1..Len(budget.categories) :
                            budget.categories[i] >= 100}),
             Len(budget.categories))

_calculate_budget_risk(transactions, budget) ==
    IF ~budget.present \/ ~budget.has_month \/ budget.categories = <<>> THEN Zero
    ELSE LET overrun_count ==
                 Cardinality({i \in 1..Len(budget.categories) :
                                budget.categories[i] > 100})
             total_categories == Len(budget.categories)
         IN IF total_categories > 0 THEN Rat(overrun_count, total_categories)
            ELSE Zero

(***************************************************************************)
(* tools/risk_assessment.py: _calculate_overall_risk_score.                *)
(* The four additions to risk_score, in the order of the code.             *)
(***************************************************************************)
IncomeVolatilityPoints(transactions) ==
    IF ~NoTransactions(transactions)
    THEN SurdMinRat(Int2Rat(25),
                    SurdTimes(_calculate_income_volatility(transactions), 100))
    ELSE SurdOfRat(Zero)

LiquidityPoints(transactions, investments) ==
    RatMin(Int2Rat(25),
           RatMul(_calculate_liquidity_risk(transactions, investments),
                  Int2Rat(25)))

\* if investments: a dict with an empty holdings list is not empty.
ConcentrationPoints(investments) ==
    IF investments.present
    THEN RatMin(Int2Rat(25),
                RatMul(_calculate_concentration_risk(investments), Int2Rat(25)))
    ELSE Zero

\* if budget and transactions is not None
BudgetRiskPoints(transactions, budget) ==
    IF budget.present /\ transactions.present
    THEN RatMin(Int2Rat(25),
                RatMul(_calculate_budget_risk(transactions, budget), Int2Rat(25)))
    ELSE Zero

_calculate_overall_risk_score(transactions, budget, investments) ==
    LET risk_score ==
          SurdAdd(IncomeVolatilityPoints(transactions),
                  SurdOfRat(RatAdd(LiquidityPoints(transactions, investments),
                                   RatAdd(ConcentrationPoints(investments),
                                          BudgetRiskPoints(transactions, budget)))))
    IN SurdMinRat(Int2Rat(100), risk_score)

(***************************************************************************)
(* tools/risk_assessment.py: _analyze_portfolio_diversification and its    *)
(* call in _comprehensive_risk_analysis.                                   *)
(***************************************************************************)
_analyze_portfolio_diversification(investments) ==
    IF investments.holdings = <<>> THEN [error |-> "No investment data"]
    ELSE LET total_value == TotalCurrentValue(investments)
             num_holdings == Len(investments.holdings)
             max_position_pct ==
                 IF total_value > 0
                 THEN Rat(MaxCurrentValue(investments) * 100, total_value)
                 ELSE Zero
             diversification_score ==
                 100 - (IF RatGT(max_position_pct, Int2Rat(40)) THEN 30
                        ELSE IF RatGT(max_position_pct, Int2Rat(25)) THEN 15
                        ELSE 0)
                     - (IF num_holdings < 5 THEN 20
                        ELSE IF num_holdings < 10 THEN 10
                        ELSE 0)
         IN [total_holdings |-> num_holdings,
             largest_position_pct |-> max_position_pct,
             diversification_score |-> Max2(0, diversification_score)]

\* analysis["diversification_analysis"]: {} unless `investments` is truthy.
DiversificationAnalysis(investments) ==
    IF investments.present
    THEN _analyze_portfolio_diversification(investments)
    ELSE EmptyDict

(***************************************************************************)
(* The divisions the two modules execute on an input, with their divisors. *)
(***************************************************************************)
Division(site, divisor) == [site |-> site, divisor |-> divisor]

\* transactions.groupby(month)["amount"].sum().abs()
MonthlySpending(transactions) ==
    LET rows == transactions.rows
    IN [m \in {rows[i].month : i \in 1..Len(rows)} |->
          Abs(SumSeq([i \in 1..Len(rows) |->
                        IF rows[i].month = m THEN rows[i].amount ELSE 0]))]

MeanOf(monthly) ==
    RatDiv(SumRatFn([m \in DOMAIN monthly |-> Int2Rat(monthly[m])]),
           Int2Rat(Cardinality(DOMAIN monthly)))

PlannerDivisions(transactions, budget, investments) ==
    (IF ~NoTransactions(transactions)
     THEN {Division("planner.month_count",
                    Int2Rat(Max2(1, MonthCount(transactions)))),
           Division("planner.retirement_month_count",
                    Int2Rat(MonthCount(transactions)))}
          \cup (IF Cardinality(DOMAIN MonthlySpending(transactions)) > 1
                THEN {Division("planner.mean_monthly_spending",
                               MeanOf(MonthlySpending(transactions)))}
                ELSE {})
          \cup (IF IncomeSum(transactions) > 0
                THEN {Division("planner.income",
                               Int2Rat(IncomeSum(transactions)))}
                ELSE {})
          \cup (IF ExpenseSum(transactions) # 0
                THEN {Division("planner.monthly_expenses",
                               Rat(Abs(ExpenseSum(transactions)),
                                   Max2(1, MonthCount(transactions))))}
                ELSE {})
          \cup (IF budget.present /\ ExpenseSum(transactions) # 0
                THEN {Division("planner.total_category_spending",
                               Int2Rat(Abs(ExpenseSum(transactions))))}
                ELSE {})
          \cup (IF budget.present /\ budget.has_month /\ budget.categories # <<>>
                THEN {Division("planner.category_count",
                               Int2Rat(Max2(1, Len(budget.categories))))}
                ELSE {})
     ELSE {})
    \cup (IF HasHoldings(investments) /\ TotalCurrentValue(investments) > 0
          THEN {Division("planner.total_value",
                         Int2Rat(TotalCurrentValue(investments)))}
          ELSE {})

RiskDivisions(transactions, budget, investments) ==
    (IF ~NoTransactions(transactions)
     THEN {Division("risk.month_count",
                    Int2Rat(Max2(1, MonthCount(transactions))))}
          \cup (IF Cardinality(DOMAIN MonthlyIncome(transactions)) >= 2
                   /\ RatGT(MeanOf(MonthlyIncome(transactions)), Zero)
                THEN {Division("risk.mean_monthly_income",
                               MeanOf(MonthlyIncome(transactions)))}
                ELSE {})
          \cup (IF IncomeSum(transactions) > 0
                THEN {Division("risk.income",
                               Int2Rat(IncomeSum(transactions)))}
                ELSE {})
          \cup (IF ExpenseSum(transactions) # 0
                THEN {Division("risk.monthly_expenses",
                               Rat(Abs(ExpenseSum(transactions)),
                                   Max2(1, MonthCount(transactions))))}
                ELSE {})
     ELSE {})
    \cup (IF HasHoldings(investments) /\ TotalCurrentValue(investments) > 0
          THEN {Division("risk.total_value",
                         Int2Rat(TotalCurrentValue(investments)))}
          ELSE {})
    \cup (IF budget.present /\ budget.has_month /\ budget.categories # <<>>
             /\ transactions.present
          THEN {Division("risk.category_count",
                         Int2Rat(Len(budget.categories)))}
          ELSE {})

(***************************************************************************)
(* RiskSpec: the planner and the risk module analyse one context.          *)
(***************************************************************************)
RiskAmounts == {-150, 0, 100, 120}

RiskTransactionInputs ==
    {[present |-> FALSE, rows |-> <<>>]} \cup
    {[present |-> TRUE, rows |-> r] :
        r \in {x \in SeqsUpTo([amount : RiskAmounts, month : Months],
                              MaxTransactions) : OrderedByDate(x)}}

Valued(symbol, value) == [symbol |-> symbol, current_value |-> value]

\* A holding record that names its value market_value.
Quoted(symbol, value) == [symbol |-> symbol, market_value |-> value]

Portfolios ==
    { <<>>,
      <<Valued("AAA", 500)>>,
      <<Valued("AAA", 1000)>>,
      <<Valued("AAA", 9000)>>,
      <<Valued("AAA", 22000)>>,
      <<Valued("AAA", 25000)>>,
      <<Valued("AAA", 9000), Valued("BBB", 1000)>>,
      <<Quoted("AAA", 9000), Quoted("BBB", 1000)>>,
      <<Valued("AAA", -100), Valued("BBB", 300)>>,
      [i \in 1..5 |-> Valued("stock", 500)],
      [i \in 1..10 |-> Valued("etf", 500)] }

RiskInvestmentInputs ==
    {[present |-> FALSE, holdings |-> <<>>]} \cup
    {[present |-> TRUE, holdings |-> h] : h \in Portfolios}

\* Budgets: None, no entry for the month, and months of zero to three
\* categories by percentage_used.
RiskBudgetInputs ==
    {[present |-> FALSE, has_month |-> FALSE, categories |-> <<>>],
     [present |-> TRUE, has_month |-> FALSE, categories |-> <<>>]} \cup
    {[present |-> TRUE, has_month |-> TRUE, categories |-> c] :
        c \in { <<>>, <<0>>, <<100>>, <<125>>, <<100, 125>>, <<125, 160>>,
                <<0, 100, 160>> }}

NoAnalysis == [computed |-> FALSE]

RiskInit ==
    /\ inp \in [transactions : RiskTransactionInputs,
                budget : RiskBudgetInputs,
                investments : RiskInvestmentInputs]
    /\ out = NoAnalysis

\* AdvancedFinancialPlannerTool and RiskAssessmentTool run on the context:
\* the scores and primitives their analyses report.
AnalyzeContext ==
    /\ ~out.computed
    /\ out' =
         [computed |-> TRUE,
          overall_risk_score |->
              _calculate_overall_risk_score(
                  inp.transactions, inp.budget, inp.investments),
          income_points |-> IncomeVolatilityPoints(inp.transactions),
          liquidity_points |->
              LiquidityPoints(inp.transactions, inp.investments),
          concentration_points |-> ConcentrationPoints(inp.investments),
          budget_points |-> BudgetRiskPoints(inp.transactions, inp.budget),
          liquidity_risk |->
              _calculate_liquidity_risk(inp.transactions, inp.investments),
          concentration_risk |->
              _calculate_concentration_risk(inp.investments),
          budget_overrun_ratio |->
              _calculate_budget_risk(inp.transactions, inp.budget),
          emergency_fund_months |->
              _calculate_emergency_fund_months(inp.transactions, inp.investments),
          diversification_analysis |->
              DiversificationAnalysis(inp.investments),
          planner |->
              [financial_health_score |->
                   _calculate_financial_health_score(
                       inp.transactions, inp.budget, inp.investments),
               emergency_fund_months |->
                   _assess_emergency_fund(inp.transactions, inp.investments),
               emergency_points |->
                   EmergencyFundPoints(inp.transactions, inp.investments),
               savings_points |-> SavingsRatePoints(inp.transactions),
               savings_rate |-> _calculate_savings_rate(inp.transactions),
               retirement_readiness |->
                   _assess_retirement_readiness(
                       inp.transactions, inp.investments)],
          divisions |->
              PlannerDivisions(inp.transactions, inp.budget, inp.investments)
                \cup RiskDivisions(inp.transactions, inp.budget, inp.investments)]
    /\ UNCHANGED <<inp, agentVars, toolVars, chatVars>>

RiskSpecInit == AgentIdle /\ ToolIdle /\ ChatIdle /\ RiskInit

RiskNext == AnalyzeContext

RiskSpec == RiskSpecInit /\ [][RiskNext]_vars

(***************************************************************************)
(* Properties of the scores of the planner and the risk module (RiskSpec). *)
(***************************************************************************)
\* C11: with transactions, budget and the number of holdings fixed, a
\* portfolio of greater total value never has a lower Financial Health Score.
C11_ScoreMonotoneInLiquidAssets ==
    out.computed
      => \A other \in RiskInvestmentInputs :
            /\ other.present = inp.investments.present
            /\ Len(other.holdings) = Len(inp.investments.holdings)
            /\ TotalCurrentValue(other) >= TotalCurrentValue(inp.investments)
            => RatGE(_calculate_financial_health_score(
                         inp.transactions, inp.budget, other),
                     out.planner.financial_health_score)

\* One holding of 500 against monthly expenses of 150: a larger holding
\* brings a strictly higher score.
C11_Witness ==
    /\ out.computed
    /\ inp.investments.holdings = <<Valued("AAA", 500)>>
    /\ ExpenseSum(inp.transactions) = -150
    /\ RatGT(_calculate_financial_health_score(
                 inp.transactions, inp.budget,
                 [present |-> TRUE, holdings |-> <<Valued("AAA", 9000)>>]),
             out.planner.financial_health_score)

RatBetween(x, lo, hi) == RatGE(x, Int2Rat(lo)) /\ RatLE(x, Int2Rat(hi))

ScenarioB == <<Quoted("AAA", 9000), Quoted("BBB", 1000)>>

\* C13 (as claimed): for the holdings {AAA, market_value 9000} and
\* {BBB, market_value 1000} the risk module computes concentration_risk 0.9
\* and a Diversification Score of 50.
C13_ScenarioBConcentration ==
    out.computed /\ inp.investments.holdings = ScenarioB
      => /\ out.concentration_risk = Rat(9, 10)
         /\ "diversification_score" \in DOMAIN out.diversification_analysis
         /\ out.diversification_analysis.diversification_score = 50

\* C14 (as claimed): for every holdings list, the empty list included, the
\* risk module returns a Diversification Score, a number in [0, 100].
C14_DiversificationScoreDefined ==
    out.computed /\ inp.investments.present
      => /\ "diversification_score" \in DOMAIN out.diversification_analysis
         /\ out.diversification_analysis.diversification_score \in 0..100

\* C16: budget_overrun_ratio is the fraction of the month's categories with
\* percentage_used > 100: in [0, 1], 0 when no category is above 100 or when
\* the budget, the month or the categories are missing, and 1 for a single
\* category at 125.
C16_BudgetOverrunRatio ==
    out.computed
      => LET ratio == out.budget_overrun_ratio
             categories == inp.budget.categories
             over == {i \in 1..Len(categories) : categories[i] > 100}
         IN /\ RatBetween(ratio, 0, 1)
            /\ ~inp.budget.present \/ ~inp.budget.has_month \/ categories = <<>>
                 => ratio = Zero
            /\ over = {} => ratio = Zero
            /\ categories # <<>>
                 => ratio[1] * Len(categories) = ratio[2] * Cardinality(over)
            /\ categories = <<125>> => ratio = Int2Rat(1)

\* The month with the single category at 125 percent.
C16_Witness ==
    /\ out.computed
    /\ inp.budget.categories = <<125>>
    /\ out.budget_overrun_ratio = Int2Rat(1)

\* C17 (as claimed): no division of the metric primitives and scoring
\* functions of the two modules is executed with a zero divisor.
C17_NoZeroDivisor ==
    out.computed => \A d \in out.divisions : d.divisor # Zero

\* C18: with zero transactions and zero investments, emergency_fund_months
\* is 0 in the planner and in the risk module, and the emergency-fund and
\* savings sub-scores of the Financial Health Score are 0.
C18_NothingRecorded ==
    out.computed /\ NoTransactions(inp.transactions)
                 /\ ~HasHoldings(inp.investments)
      => /\ out.planner.emergency_fund_months = Zero
         /\ out.emergency_fund_months = Zero
         /\ out.planner.emergency_points = 0
         /\ out.planner.savings_points = 0

\* An empty transaction table and an empty holdings list.
C18_Witness ==
    /\ out.computed
    /\ inp.transactions = [present |-> TRUE, rows |-> <<>>]
    /\ inp.investments = [present |-> TRUE, holdings |-> <<>>]
    /\ out.planner.emergency_points = 0
(***************************************************************************)
(* Properties of the savings rate (RiskSpec).                              *)
(***************************************************************************)
\* C15: savings_rate is max(0, (income - expenses) / income), a value in
\* [0, 1], and it is 0 whenever income <= 0 or the transactions are empty
\* or missing.
C15_SavingsRate ==
    out.computed
      => LET income   == IncomeSum(inp.transactions)
             expenses == Abs(ExpenseSum(inp.transactions))
             rate     == out.planner.savings_rate
         IN /\ InPoints(rate, 0, 1)
            /\ NoTransactions(inp.transactions) \/ income <= 0 => rate = Zero
            /\ ~NoTransactions(inp.transactions) /\ income > 0
                 => IF expenses >= income THEN rate = Zero
                    ELSE rate[1] * income = (income - expenses) * rate[2]

\* Expenses above the income: the quotient is negative and the rate is 0.
C15_Witness ==
    /\ out.computed
    /\ IncomeSum(inp.transactions) = 100
    /\ ExpenseSum(inp.transactions) = -150
    /\ out.planner.savings_rate = Zero

(***************************************************************************)
(* ModuleSpec: RiskAssessmentTool and AdvancedFinancialPlannerTool, one    *)
(* sub-analysis at a time (risk_assessment.py and                          *)
(* advanced_financial_planner.py, lines 19 to 91 and 19 to 85).            *)
(***************************************************************************)
\* context["transactions"]: None, an empty DataFrame, a DataFrame with the
\* date, amount, description and category columns, or a DataFrame with the
\* date and amount columns only.
TransactionKinds == {"absent", "empty", "frame", "amounts_only"}

\* context["budget"]: None or a dict with its monthly_budgets.
BudgetKinds == {"absent", "dict"}

ModuleContexts ==
    [transactions : TransactionKinds, budget : BudgetKinds,
     investments : InvestmentKinds, goals : {"absent"}]

\* The user_query of an invocation, as the set of keywords it contains.
ModuleQueries == { {}, {"risk", "stress"}, {"insurance"} }

\* transactions is not None and not transactions.empty
NonEmptyFrame(transactions) == transactions \in {"frame", "amounts_only"}

\* `if investments:` is true of a non-empty list and of the portfolio dict.
Truthy(investments) == investments \in {"list", "dict"}

\* The value a sub-analysis returns: determined by the function and the
\* arguments it is handed.
Computed(fn, args) == [by |-> fn, args |-> args]

\* The value a key holds before its sub-analysis has been assigned.
Default == [by |-> "initial", args |-> <<>>]

NoException == ""

Step(key, fn, args, exc) == [key |-> key, fn |-> fn, args |-> args, exc |-> exc]

\* investments.get on a list raises AttributeError; every sub-analysis of the
\* risk module reaches such a call when investments is a non-empty list.
\* transactions["description"] raises KeyError on a frame without the column.
RiskException(fn, transactions, investments) ==
    IF fn \in {"_assess_vulnerabilities", "_generate_risk_mitigation_strategies"}
         /\ transactions = "amounts_only"
    THEN "KeyError"
    ELSE IF investments = "list" THEN "AttributeError" ELSE NoException

\* The statements of the try block of _comprehensive_risk_analysis, in order.
RiskSteps(transactions, budget, investments, goals) ==
    LET exc(fn) == RiskException(fn, transactions, investments) IN
    << Step("overall_risk_score", "_calculate_overall_risk_score",
            <<transactions, budget, investments, goals>>,
            exc("_calculate_overall_risk_score")),
       Step("risk_categories", "_analyze_risk_categories",
            <<transactions, budget, investments>>,
            exc("_analyze_risk_categories")),
       Step("vulnerability_assessment", "_assess_vulnerabilities",
            <<transactions, investments>>, exc("_assess_vulnerabilities")),
       Step("stress_test_results", "_perform_stress_tests",
            <<transactions, investments>>, exc("_perform_stress_tests")),
       Step("risk_mitigation_strategies", "_generate_risk_mitigation_strategies",
            <<transactions, budget, investments>>,
            exc("_generate_risk_mitigation_strategies")),
       Step("insurance_recommendations", "_analyze_insurance_needs",
            <<transactions, investments>>, exc("_analyze_insurance_needs")) >>
    \o (IF Truthy(investments)
        THEN << Step("diversification_analysis",
                     "_analyze_portfolio_diversification", <<investments>>,
                     exc("_analyze_portfolio_diversification")) >>
        ELSE << >>)

\* The analysis dict as _comprehensive_risk_analysis creates it.
RiskDefaults ==
    [k \in {"overall_risk_score", "risk_categories", "vulnerability_assessment",
            "stress_test_results", "risk_mitigation_strategies",
            "insurance_recommendations", "diversification_analysis"} |-> Default]

\* _assess_emergency_fund and the other readers of investments call
\* investments.get; _identify_high_spending_categories groups by "category",
\* and is called only when budget is truthy and the frame is not empty.
PlannerException(fn, transactions, budget, investments) ==
    CASE fn \in {"_analyze_cash_flow", "_calculate_savings_rate"} -> NoException
      [] fn = "_assess_emergency_fund" ->
            IF NonEmptyFrame(transactions) /\ investments = "list"
            THEN "AttributeError" ELSE NoException
      [] fn = "_generate_recommendations" ->
            IF NonEmptyFrame(transactions) /\ investments = "list"
            THEN "AttributeError"
            ELSE IF budget = "dict" /\ transactions = "amounts_only"
            THEN "KeyError"
            ELSE IF investments = "list" THEN "AttributeError" ELSE NoException
      [] OTHER -> IF investments = "list" THEN "AttributeError" ELSE NoException

\* The statements of the try block of _comprehensive_financial_analysis.
PlannerSteps(transactions, budget, investments, goals) ==
    LET exc(fn) == PlannerException(fn, transactions, budget, investments) IN
    << Step("financial_health_score", "_calculate_financial_health_score",
            <<transactions, budget, investments, goals>>,
            exc("_calculate_financial_health_score")),
       Step("risk_assessment", "_assess_financial_risks",
            <<transactions, budget, investments>>,
            exc("_assess_financial_risks")),
       Step("cash_flow_analysis", "_analyze_cash_flow", <<transactions>>,
            exc("_analyze_cash_flow")),
       Step("savings_rate", "_calculate_savings_rate", <<transactions>>,
            exc("_calculate_savings_rate")),
       Step("emergency_fund_months", "_assess_emergency_fund",
            <<transactions, investments>>, exc("_assess_emergency_fund")),
       Step("optimization_recommendations", "_generate_recommendations",
            <<transactions, budget, investments, goals>>,
            exc("_generate_recommendations")),
       Step("retirement_readiness", "_assess_retirement_readiness",
            <<transactions, investments>>,
            exc("_assess_retirement_readiness")) >>

PlannerDefaults ==
    [k \in {"financial_health_score", "risk_assessment",
            "optimization_recommendations", "cash_flow_analysis",
            "debt_analysis", "savings_rate", "emergency_fund_months",
            "retirement_readiness"} |-> Default]

\* An except clause that threw away what the try block had assigned.
RECURSIVE TryBlockDiscarding(_, _, _)
TryBlockDiscarding(analysis, steps, prefix) ==
    IF steps = << >>
    THEN [raised |-> FALSE, exc |-> NoException, analysis |-> analysis]
    ELSE LET step == Head(steps) IN
           IF step.exc = NoException
           THEN TryBlockDiscarding(
                    [analysis EXCEPT ![step.key] = Computed(step.fn, step.args)],
                    Tail(steps), prefix)
           ELSE [raised |-> FALSE, exc |-> NoException,
                 analysis |-> DictSet([k \in DOMAIN analysis |-> Default],
                                      "error", Computed(prefix, <<step.exc>>))]

\* try: the statements run in order, each assigning its key;
\* except Exception as e: analysis["error"] = f"<prefix>: {str(e)}".
\* An exception the clause does not catch leaves the function.
RECURSIVE TryBlock(_, _, _)
TryBlock(analysis, steps, prefix) ==
    IF steps = << >>
    THEN [raised |-> FALSE, exc |-> NoException, analysis |-> analysis]
    ELSE LET step == Head(steps) IN
           IF step.exc = NoException
           THEN TryBlock(
                    [analysis EXCEPT ![step.key] = Computed(step.fn, step.args)],
                    Tail(steps), prefix)
           ELSE IF CaughtByExcept(step.exc)
           THEN [raised |-> FALSE, exc |-> NoException,
                 analysis |-> DictSet(analysis, "error",
                                      Computed(prefix, <<step.exc>>))]
           ELSE [raised |-> TRUE, exc |-> step.exc, analysis |-> analysis]

\* The sub-analyses a keyword of the query names, or all of them when it
\* names none.
KeywordSteps(steps, query) ==
    LET named == { i \in 1..Len(steps) :
                     \/ "stress" \in query /\ steps[i].key = "stress_test_results"
                     \/ "insurance" \in query
                          /\ steps[i].key = "insurance_recommendations" }
        keep(i) == named = {} \/ i \in named
        F[i \in 0..Len(steps)] ==
            IF i = 0 THEN << >>
            ELSE IF keep(i) THEN Append(F[i - 1], steps[i]) ELSE F[i - 1]
    IN F[Len(steps)]

\* A risk module that chose its sub-analyses by keyword, as
\* InvestmentAnalyzerTool does.
RiskAnalysisByKeyword(transactions, budget, investments, goals, query) ==
    TryBlock(RiskDefaults,
             KeywordSteps(RiskSteps(transactions, budget, investments, goals),
                          query),
             "Risk analysis error")

\* query is a parameter no statement of the function reads.
_comprehensive_risk_analysis(transactions, budget, investments, goals, query) ==
    TryBlock(RiskDefaults, RiskSteps(transactions, budget, investments, goals),
             "Risk analysis error")

_comprehensive_financial_analysis(transactions, budget, investments, goals, query) ==
    TryBlock(PlannerDefaults,
             PlannerSteps(transactions, budget, investments, goals),
             "Analysis error")

\* __call__: the analysis of the context's entries is stored under the
\* module's name and the name is appended to tools_used.
ModuleAnalysis(name, s) ==
    LET c == s.context IN
      IF name = "risk_assessment"
      THEN _comprehensive_risk_analysis(
               c.transactions, c.budget, c.investments, c.goals, s.user_query)
      ELSE _comprehensive_financial_analysis(
               c.transactions, c.budget, c.investments, c.goals, s.user_query)

ModuleCall(name, s) ==
    LET r == ModuleAnalysis(name, s) IN
      IF r.raised THEN Raised(s, r.exc)
      ELSE Returned(StoreAndRegister(s, name, r.analysis))

SteppedModules == {"risk_assessment", "advanced_financial_planner"}

ModuleInit ==
    /\ ws \in { [InitialState({}) EXCEPT !.context = c] : c \in ModuleContexts }
    /\ calls = << >>

\* One invocation: the caller sets user_query and calls the module on the
\* state.
CallModule(m, q) ==
    /\ Len(calls) < MaxCalls
    /\ LET o == ModuleCall(m, [ws EXCEPT !.user_query = q]) IN
         /\ ws' = o.state
         /\ calls' = Append1(calls, [module |-> m, query |-> q,
                                     raised |-> o.raised,
                                     before |-> ws, after |-> o.state])
    /\ UNCHANGED <<agentVars, chatVars, scoreVars>>

ModuleSpecInit == AgentIdle /\ ModuleInit /\ ChatIdle /\ ScoreIdle

ModuleNext == \E m \in SteppedModules, q \in ModuleQueries : CallModule(m, q)

ModuleSpec == ModuleSpecInit /\ [][ModuleNext]_vars

(***************************************************************************)
(* Properties of the two modules' invocations (ModuleSpec).                *)
(***************************************************************************)
\* The invocations of module m so far.
CallsOf(m) == { i \in DOMAIN calls : calls[i].module = m }

\* What invocation i left under its module's name.
ResultOf(i) == calls[i].after.analysis_results[calls[i].module]

SixSubAnalyses ==
    {"overall_risk_score", "risk_categories", "vulnerability_assessment",
     "stress_test_results", "risk_mitigation_strategies",
     "insurance_recommendations"}

\* C21: invocations of the risk module on the same context that differ in
\* user_query leave identical analysis_results["risk_assessment"], and an
\* invocation that met no exception has run all six sub-analyses (score,
\* categories, vulnerabilities, stress tests, mitigation strategies,
\* insurance), whatever the query.
C21_RiskQueryIndependent ==
    /\ \A i, j \in CallsOf("risk_assessment") :
          calls[i].before.context = calls[j].before.context
             => ResultOf(i) = ResultOf(j)
    /\ \A i \in CallsOf("risk_assessment") :
          "error" \notin DOMAIN ResultOf(i)
             => \A k \in SixSubAnalyses : ResultOf(i)[k] # Default

\* Two invocations with different queries, one of them naming a
\* sub-analysis, both complete.
C21_Witness ==
    \E i, j \in CallsOf("risk_assessment") :
       /\ calls[i].query = {} /\ calls[j].query = {"risk", "stress"}
       /\ "error" \notin DOMAIN ResultOf(i)
       /\ ResultOf(i)["stress_test_results"] # Default
       /\ ResultOf(j)["insurance_recommendations"] # Default

(***************************************************************************)
(* Properties of the retirement projection (RiskSpec).                     *)
(***************************************************************************)
\* C22: the projection assumes ages 35 and 65 (thirty years to go), takes
\* required_corpus = annual_expenses * 25 with annual_expenses the yearly
\* rate of the recorded expenses, monthly_savings_needed =
\* max(0, (required_corpus - current_savings) / 360), and on_track exactly
\* when current_savings >= required_corpus * 35 / 65.
C22_RetirementProjection ==
    out.computed =>
       LET r == out.planner.retirement_readiness
           annual ==
               IF NoTransactions(inp.transactions) THEN Zero
               ELSE Rat(12 * Abs(ExpenseSum(inp.transactions)),
                        MonthCount(inp.transactions))
           gap == RatDiv(RatSub(r.required_corpus, r.current_savings),
                         Int2Rat(360))
       IN /\ r.years_to_retirement = 65 - 35
          /\ r.required_corpus = RatMul(annual, Int2Rat(25))
          /\ r.monthly_savings_needed = (IF RatGE(gap, Zero) THEN gap ELSE Zero)
          /\ r.on_track <=>
                RatGE(RatMul(r.current_savings, Int2Rat(65)),
                      RatMul(r.required_corpus, Int2Rat(35)))

\* 150 spent in one month needs a corpus of 45000; savings of 25000 are
\* above 35/65 of it and still 20000 short.
C22_Witness ==
    /\ out.computed
    /\ out.planner.retirement_readiness.required_corpus = Int2Rat(45000)
    /\ out.planner.retirement_readiness.current_savings = Int2Rat(25000)
    /\ out.planner.retirement_readiness.on_track
    /\ out.planner.retirement_readiness.monthly_savings_needed = Rat(20000, 360)

(***************************************************************************)
(* LmSpec: core/groq_client.py, GroqClient.chat and                        *)
(* analyze_financial_query. The HTTP exchange is the environment: it       *)
(* answers, or one of its steps raises.                                    *)
(***************************************************************************)
\* What the exchange with the service does: a reply with content, a timeout
\* or a refused connection inside client.post, an error status at
\* raise_for_status, a body response.json() cannot parse, a body without
\* "choices", or the cancellation of the awaiting task.
Exchanges ==
    {"content", "timeout", "connect_error", "error_status", "not_json",
     "no_choices", "cancelled"}

\* The exception each exchange raises inside the try block.
ExchangeException(exchange) ==
    CASE exchange = "content"       -> NoException
      [] exchange = "timeout"       -> "ReadTimeout"
      [] exchange = "connect_error" -> "ConnectError"
      [] exchange = "error_status"  -> "HTTPStatusError"
      [] exchange = "not_json"      -> "JSONDecodeError"
      [] exchange = "no_choices"    -> "KeyError"
      [] exchange = "cancelled"     -> "CancelledError"

\* httpx.RequestError and its subclasses; HTTPStatusError is not one.
RequestErrors == {"RequestError", "ReadTimeout", "ConnectError"}

\* The classes deriving from Exception; asyncio.CancelledError derives from
\* BaseException only.
LmExceptionSubclasses ==
    RequestErrors \cup {"HTTPStatusError", "JSONDecodeError", "KeyError",
                        "TypeError"}

RequestErrorReply == "I'm sorry, I encountered an error processing your request."
UnexpectedErrorReply == "I'm sorry, I encountered an unexpected error."

\* A chat with the first except clause only.
ChatRequestErrorsOnly(exchange) ==
    LET exc == ExchangeException(exchange) IN
      IF exc = NoException THEN [raised |-> FALSE, exc |-> NoException,
                                 value |-> "content"]
      ELSE IF exc \in RequestErrors
      THEN [raised |-> FALSE, exc |-> NoException, value |-> RequestErrorReply]
      ELSE [raised |-> TRUE, exc |-> exc, value |-> ""]

\* GroqClient.chat: the content of the reply, or the reply of the except
\* clause that matches; an exception neither clause matches leaves chat.
GroqChat(exchange) ==
    LET exc == ExchangeException(exchange) IN
      IF exc = NoException THEN [raised |-> FALSE, exc |-> NoException,
                                 value |-> "content"]
      ELSE IF exc \in RequestErrors
      THEN [raised |-> FALSE, exc |-> NoException, value |-> RequestErrorReply]
      ELSE IF exc \in LmExceptionSubclasses
      THEN [raised |-> FALSE, exc |-> NoException,
            value |-> UnexpectedErrorReply]
      ELSE [raised |-> TRUE, exc |-> exc, value |-> ""]

\* _classify_intent: the groups of keywords in the order of the elif chain.
IntentKeywordGroups ==
    << [intent |-> "budget_analysis",
        words |-> {"budget", "spending", "expense", "cost", "allocat"}],
       [intent |-> "investment_advice",
        words |-> {"invest", "portfolio", "stock", "bond", "fund", "asset",
                   "diversif"}],
       [intent |-> "goal_planning",
        words |-> {"goal", "save", "saving", "target", "plan", "objective"}],
       [intent |-> "transaction_analysis",
        words |-> {"transaction", "payment", "purchase", "bill", "receipt"}],
       [intent |-> "risk_assessment",
        words |-> {"risk", "insurance", "emergency", "protect", "coverage"}],
       [intent |-> "market_analysis",
        words |-> {"market", "economic", "trend", "forecast", "outlook"}],
       [intent |-> "tax_planning",
        words |-> {"tax", "deduction", "ira", "retirement", "401k"}],
       [intent |-> "debt_management",
        words |-> {"debt", "loan", "credit", "mortgage", "refinanc"}] >>

\* query: the set of keywords that occur in query.lower().
_classify_intent(query) ==
    LET hits == { i \in DOMAIN IntentKeywordGroups :
                    IntentKeywordGroups[i].words \cap query # {} }
    IN IF hits = {} THEN "general_inquiry"
       ELSE IntentKeywordGroups[CHOOSE i \in hits : \A j \in hits : i <= j].intent

\* context: None, a dict json.dumps can write, or one it cannot (it raises
\* TypeError before the service is called).
LmContexts == {"none", "json", "not_serializable"}

LmQueries ==
    { {}, {"budget"}, {"risk", "plan"}, {"retirement", "loan"},
      {"market", "stock"} }

\* analyze_financial_query
analyze_financial_query(user_query, context, exchange) ==
    IF context = "not_serializable"
    THEN [raised |-> TRUE, exc |-> "TypeError", called |-> FALSE,
          result |-> EmptyDict]
    ELSE LET response == GroqChat(exchange) IN
           IF response.raised
           THEN [raised |-> TRUE, exc |-> response.exc, called |-> TRUE,
                 result |-> EmptyDict]
           ELSE [raised |-> FALSE, exc |-> NoException, called |-> TRUE,
                 result |-> [response |-> response.value,
                             intent |-> _classify_intent(user_query),
                             model_used |-> "groq-llama3-8b",
                             context_used |-> context # "none"]]

NoReply == [done |-> FALSE]

LmInit ==
    /\ inp \in [user_query : LmQueries, context : LmContexts,
                exchange : Exchanges]
    /\ out = NoReply

AnalyzeFinancialQuery ==
    /\ ~out.done
    /\ out' = [done |-> TRUE,
               reply |-> analyze_financial_query(
                             inp.user_query, inp.context, inp.exchange)]
    /\ UNCHANGED <<inp, agentVars, toolVars, chatVars>>

LmSpecInit == AgentIdle /\ ToolIdle /\ ChatIdle /\ LmInit

LmNext == AnalyzeFinancialQuery

LmSpec == LmSpecInit /\ [][LmNext]_vars

(***************************************************************************)
(* Properties of the language-model client (LmSpec).                       *)
(***************************************************************************)
\* The exchanges in which the call times out or fails.
FailedExchanges ==
    {"timeout", "connect_error", "error_status", "not_json", "no_choices"}

\* C23: when the call to the service times out or fails (network error,
\* error status, malformed reply), analyze_financial_query does not raise:
\* it returns a result whose response is one of the two canned replies and
\* whose intent is the one the query's keywords give.
C23_FailedCallDegrades ==
    (out.done /\ out.reply.called /\ inp.exchange \in FailedExchanges) =>
       /\ ~out.reply.raised
       /\ out.reply.result.response
            \in {RequestErrorReply, UnexpectedErrorReply}
       /\ out.reply.result.intent =
            (IF "budget" \in inp.user_query THEN "budget_analysis"
             ELSE IF "stock" \in inp.user_query THEN "investment_advice"
             ELSE IF "plan" \in inp.user_query THEN "goal_planning"
             ELSE IF "risk" \in inp.user_query THEN "risk_assessment"
             ELSE IF "market" \in inp.user_query THEN "market_analysis"
             ELSE IF "retirement" \in inp.user_query THEN "tax_planning"
             ELSE IF "loan" \in inp.user_query THEN "debt_management"
             ELSE "general_inquiry")

\* An error status answered a query about risk and plans.
C23_Witness ==
    /\ out.done
    /\ inp.exchange = "error_status"
    /\ inp.user_query = {"risk", "plan"}
    /\ ~out.reply.raised
    /\ out.reply.result.response = UnexpectedErrorReply
    /\ out.reply.result.intent = "goal_planning"

(***************************************************************************)
(* BudgetSpec: api/finance_router.py, add_budget_category, on the contents *)
(* of budget.json.                                                         *)
(***************************************************************************)
BudgetMonths == {"2025-01", "2025-02"}
BudgetCategories == {"food", "rent"}
BudgetedAmounts == {0, 100, 250}

\* sum(cat["budgeted"] for cat in categories.values())
RECURSIVE SumBudgeted(_, _)
SumBudgeted(categories, keys) ==
    IF keys = {} THEN 0
    ELSE LET k == CHOOSE x \in keys : TRUE
         IN categories[k].budgeted + SumBudgeted(categories, keys \ {k})

\* The month entry the handler creates for a month it does not find.
NewMonth ==
    [total_budgeted |-> 0, total_spent |-> 0, remaining |-> 0,
     categories |-> EmptyDict]

\* The entry the handler writes for the category.
NewCategory(budgeted_amount) ==
    [budgeted |-> budgeted_amount, spent |-> 0,
     remaining |-> budgeted_amount, percentage_used |-> 0]

\* budget.json: missing, without "monthly_budgets", or with months.
NoBudgetFile ==
    [exists |-> FALSE, has_monthly_budgets |-> FALSE,
     monthly_budgets |-> EmptyDict]

BudgetData(monthly_budgets) ==
    [exists |-> TRUE, has_monthly_budgets |-> TRUE,
     monthly_budgets |-> monthly_budgets]

\* A month another part of the service has recorded spending in.
SpentMonth ==
    [total_budgeted |-> 100, total_spent |-> 50, remaining |-> 50,
     categories |->
        DictSet(EmptyDict, "food",
                [budgeted |-> 100, spent |-> 50, remaining |-> 50,
                 percentage_used |-> 50])]

BudgetFiles ==
    { NoBudgetFile,
      [exists |-> TRUE, has_monthly_budgets |-> FALSE,
       monthly_budgets |-> EmptyDict],
      BudgetData(EmptyDict),
      BudgetData(DictSet(EmptyDict, "2025-01", SpentMonth)) }

\* The months after the handler's two "ensure" steps.
EnsuredMonths(file, month) ==
    LET months == IF file.exists /\ file.has_monthly_budgets
                  THEN file.monthly_budgets ELSE EmptyDict
    IN IF month \in DOMAIN months THEN months
       ELSE DictSet(months, month, NewMonth)

\* A handler that added the new amount to the month's total instead of
\* summing the categories again.
AddBudgetCategoryAccumulating(file, month, category, budgeted_amount) ==
    LET months == EnsuredMonths(file, month)
        categories == DictSet(months[month].categories, category,
                              NewCategory(budgeted_amount))
        total == months[month].total_budgeted + budgeted_amount
    IN BudgetData(DictSet(months, month,
           [months[month] EXCEPT !.categories = categories,
                                 !.total_budgeted = total,
                                 !.remaining = total - months[month].total_spent]))

\* add_budget_category: read, ensure the month, set the category,
\* recalculate the month's totals, write.
add_budget_category(file, month, category, budgeted_amount) ==
    LET months == EnsuredMonths(file, month)
        categories == DictSet(months[month].categories, category,
                              NewCategory(budgeted_amount))
        total == SumBudgeted(categories, DOMAIN categories)
    IN BudgetData(DictSet(months, month,
           [months[month] EXCEPT !.categories = categories,
                                 !.total_budgeted = total,
                                 !.remaining = total - months[month].total_spent]))

NoBudgetRequest == [month |-> "", category |-> "", replaced |-> FALSE]

BudgetInit ==
    /\ out \in BudgetFiles
    /\ inp = NoBudgetRequest

\* POST /data/budget
AddBudgetCategory ==
    /\ \E month \in BudgetMonths, category \in BudgetCategories,
          budgeted_amount \in BudgetedAmounts :
         /\ out' = add_budget_category(out, month, category, budgeted_amount)
         /\ inp' = [month |-> month, category |-> category,
                    replaced |-> /\ month \in DOMAIN out.monthly_budgets
                                 /\ category \in
                                      DOMAIN out.monthly_budgets[month].categories]
    /\ UNCHANGED <<agentVars, toolVars, chatVars>>

BudgetSpecInit == AgentIdle /\ ToolIdle /\ ChatIdle /\ BudgetInit

BudgetNext == AddBudgetCategory

BudgetSpec == BudgetSpecInit /\ [][BudgetNext]_vars

(***************************************************************************)
(* Properties of the budget data (BudgetSpec).                             *)
(***************************************************************************)
\* C24: after any sequence of add_budget_category requests every month holds
\* one entry per category, an added category that existed is replaced by the
\* new entry, the month's total_budgeted is the sum of its categories'
\* budgeted amounts, its remaining is total_budgeted - total_spent, and each
\* category's percentage_used is spent / budgeted * 100 when budgeted > 0
\* and 0 otherwise.
C24_BudgetMonthConsistent ==
    \A m \in DOMAIN out.monthly_budgets :
       LET month == out.monthly_budgets[m] IN
         /\ month.total_budgeted =
               SumBudgeted(month.categories, DOMAIN month.categories)
         /\ month.remaining = month.total_budgeted - month.total_spent
         /\ \A c \in DOMAIN month.categories :
               LET cat == month.categories[c] IN
                 IF cat.budgeted > 0
                 THEN cat.percentage_used * cat.budgeted = cat.spent * 100
                 ELSE cat.percentage_used = 0
         /\ (inp.month = m /\ inp.category \in DOMAIN month.categories) =>
               month.categories[inp.category].spent = 0

\* The category with recorded spending has been replaced by a larger budget
\* and a second category has joined it.
C24_Witness ==
    /\ inp.replaced
    /\ "2025-01" \in DOMAIN out.monthly_budgets
    /\ DOMAIN out.monthly_budgets["2025-01"].categories = {"food", "rent"}
    /\ out.monthly_budgets["2025-01"].categories["food"].budgeted = 250
    /\ out.monthly_budgets["2025-01"].total_spent = 50
    /\ out.monthly_budgets["2025-01"].total_budgeted = 350
    /\ out.monthly_budgets["2025-01"].remaining = 300

(***************************************************************************)
(* SeedSpec: db/seed.py, seed_demo, on the rows of the five tables. A      *)
(* table is the sequence of its rows; a user's id is its position.         *)
(***************************************************************************)
MaxDays == 3
MaxSeedRuns == 2

DemoEmail == "demo@example.com"

DemoUser == [email |-> DemoEmail, name |-> "Demo User"]
OtherUser == [email |-> "ann@example.com", name |-> "Ann"]

\* The rows seed_demo builds for user uid. Amounts are in cents.
SeedBudgets(uid) ==
    << [user_id |-> uid, category |-> "Food & Dining", budgeted |-> 60000,
        month |-> "2025-10"],
       [user_id |-> uid, category |-> "Transportation", budgeted |-> 40000,
        month |-> "2025-10"],
       [user_id |-> uid, category |-> "Entertainment", budgeted |-> 20000,
        month |-> "2025-10"],
       [user_id |-> uid, category |-> "Shopping", budgeted |-> 30000,
        month |-> "2025-10"],
       [user_id |-> uid, category |-> "Food & Dining", budgeted |-> 55000,
        month |-> "2025-09"] >>

SeedGoals(uid) ==
    << [user_id |-> uid, name |-> "Emergency Fund", target |-> 1000000,
        current |-> 650000],
       [user_id |-> uid, name |-> "Vacation Fund", target |-> 300000,
        current |-> 120000] >>

SeedRecurring(uid) ==
    << [user_id |-> uid, description |-> "Rent", amount |-> -150000,
        category |-> "Housing"],
       [user_id |-> uid, description |-> "Music Subscription",
        amount |-> -999, category |-> "Entertainment"] >>

\* today = date.today(), as a day number.
SeedTransactions(uid, today) ==
    << [user_id |-> uid, description |-> "Coffee Shop", amount |-> -450,
        date |-> today - 1, category |-> "Food & Dining"],
       [user_id |-> uid, description |-> "Salary Deposit", amount |-> 250000,
        date |-> today - 2, category |-> "Income"],
       [user_id |-> uid, description |-> "Gas Station", amount |-> -4500,
        date |-> today - 3, category |-> "Transportation"] >>

BudgetKey == {"user_id", "month", "category"}
GoalKey == {"user_id", "name"}
RecurringKey == {"user_id", "description"}
TransactionKey == {"user_id", "description", "date"}

\* db.query(T).filter(<key columns equal>).first() finds a row.
Found(table, row, key) ==
    \E i \in DOMAIN table : \A f \in key : table[i][f] = row[f]

\* A loop that added every row without looking for it first.
AddAll(table, rows, key) == table \o rows

\* for r in rows: if not <query>.first(): db.add(r)
RECURSIVE AddMissing(_, _, _)
AddMissing(table, rows, key) ==
    IF rows = << >> THEN table
    ELSE AddMissing(IF Found(table, Head(rows), key) THEN table
                    ELSE Append(table, Head(rows)),
                    Tail(rows), key)

\* The first user with the demo address, if there is one.
DemoIds(users) == { i \in DOMAIN users : users[i].email = DemoEmail }

\* seed_demo
seed_demo(db, today) ==
    LET users == IF DemoIds(db.users) = {} THEN Append(db.users, DemoUser)
                 ELSE db.users
        uid == CHOOSE i \in DemoIds(users) : \A j \in DemoIds(users) : i <= j
    IN [users |-> users,
        budgets |-> AddMissing(db.budgets, SeedBudgets(uid), BudgetKey),
        goals |-> AddMissing(db.goals, SeedGoals(uid), GoalKey),
        recurring |-> AddMissing(db.recurring, SeedRecurring(uid),
                                 RecurringKey),
        transactions |-> AddMissing(db.transactions,
                                    SeedTransactions(uid, today),
                                    TransactionKey)]

\* The rows of s that the flags select, in order.
Selected(s, flags) ==
    LET F[i \in 0..Len(s)] ==
            IF i = 0 THEN << >>
            ELSE IF flags[i] THEN Append(F[i - 1], s[i]) ELSE F[i - 1]
    IN F[Len(s)]

\* The databases seed_demo starts on: without the demo user (with or without
\* another user), or with the demo user and any of four rows already there.
SeedDatabases ==
    { [users |-> u, budgets |-> << >>, goals |-> << >>,
       recurring |-> << >>, transactions |-> << >>] :
        u \in { << >>, <<OtherUser>> } }
    \cup
    { [users |-> u,
       budgets |-> Selected(<<[SeedBudgets(Len(u))[1] EXCEPT
                                  !.budgeted = 50000]>>, <<f[1]>>),
       goals |-> Selected(<<SeedGoals(Len(u))[1]>>, <<f[2]>>),
       recurring |-> Selected(<<SeedRecurring(Len(u))[1]>>, <<f[3]>>),
       transactions |-> Selected(<<SeedTransactions(Len(u), 1)[1]>>, <<f[4]>>)] :
        u \in { <<DemoUser>>, <<OtherUser, DemoUser>> },
        f \in [1..4 -> BOOLEAN] }

SeedInit ==
    /\ out \in SeedDatabases
    /\ inp = [today |-> 1, runs_today |-> 0]

\* One run of seed_demo.
SeedDemo ==
    /\ inp.runs_today < MaxSeedRuns
    /\ out' = seed_demo(out, inp.today)
    /\ inp' = [inp EXCEPT !.runs_today = @ + 1]
    /\ UNCHANGED <<agentVars, toolVars, chatVars>>

\* Midnight passes.
NextDay ==
    /\ inp.today < MaxDays
    /\ inp' = [today |-> inp.today + 1, runs_today |-> 0]
    /\ UNCHANGED <<out, agentVars, toolVars, chatVars>>

SeedSpecInit == AgentIdle /\ ToolIdle /\ ChatIdle /\ SeedInit

SeedNext == SeedDemo \/ NextDay

SeedSpec == SeedSpecInit /\ [][SeedNext]_vars

(***************************************************************************)
(* Properties of seed_demo (SeedSpec).                                     *)
(***************************************************************************)
\* No two rows of the table agree on the key.
NoDuplicate(table, key) ==
    \A i, j \in DOMAIN table :
       (\A f \in key : table[i][f] = table[j][f]) => i = j

NoDuplicates(db) ==
    /\ NoDuplicate(db.users, {"email"})
    /\ NoDuplicate(db.budgets, BudgetKey)
    /\ NoDuplicate(db.goals, GoalKey)
    /\ NoDuplicate(db.recurring, RecurringKey)
    /\ NoDuplicate(db.transactions, TransactionKey)

\* C25: a run of seed_demo on a day on which it has already run leaves the
\* users, budgets, goals, recurring transactions and transactions exactly as
\* they were, and no run leaves two users with the same address, two budgets
\* with the same (user, month, category), two goals with the same (user,
\* name), two recurring items with the same (user, description) or two
\* transactions with the same (user, description, date).
C25_SeedIdempotent ==
    [][inp'.runs_today = inp.runs_today + 1 =>
          /\ NoDuplicates(out')
          /\ inp.runs_today >= 1 => out' = out]_vars

\* seed_demo has run twice today on a database that held another user.
C25_Witness ==
    /\ inp.runs_today = 2
    /\ Len(out.users) = 2
    /\ Len(out.budgets) = 5
    /\ Len(out.goals) = 2
    /\ Len(out.recurring) = 2
    /\ Len(out.transactions) = 3

(***************************************************************************)
(* Properties of the graph's fan-out (Spec).                               *)
(***************************************************************************)
\* The tool nodes that ran for query q.
ToolsRun(q) == { i \in 1..Len(trace[q]) : trace[q][i] \in ToolNodes }

MaxHistory == 3

SessionIds == {"s1"}
Uuids == {"u1"}
NoSessionId == ""

ChatQueries == {"q1", "q2"}

HumanMessage(content) == [role |-> "human", content |-> content]
AIMessage == [role |-> "ai", content |-> "synthesized"]
EarlierMessage == [role |-> "human", content |-> "earlier"]

\* query_request.conversation_history: None (a marker no list equals), []
\* or a list with an entry.
NoHistory == <<[role |-> "", content |-> "None"]>>
RequestHistories == { NoHistory, << >>, <<EarlierMessage>> }

\* x or []
OrEmptyList(x) == IF x = NoHistory THEN << >> ELSE x

\* The runs of the compiled graph: it returns the final state, whose
\* messages are those handed in, with or without an answer appended by a
\* node, or a node raises.
GraphRuns == {"returned", "answered", "raised"}

\* process_query_sync: the message list is the history (or a new list) with
\* the user's message appended; the envelope's conversation_history is the
\* final state's messages, or in the except clause the initial ones.
process_query_sync(user_query, conversation_history, run) ==
    LET messages == Append1(OrEmptyList(conversation_history),
                            HumanMessage(user_query))
    IN CASE run = "returned" ->
              [intent |-> "GENERAL_INQUIRY", conversation_history |-> messages]
         [] run = "answered" ->
              [intent |-> "GENERAL_INQUIRY",
               conversation_history |-> Append1(messages, AIMessage)]
         [] run = "raised" ->
              [intent |-> "ERROR", conversation_history |-> messages]

\* A handler that took the request's history whenever the request had one.
HistoryFromRequestFirst(sessions, session_id, request_history) ==
    IF request_history # NoHistory /\ request_history # << >>
    THEN request_history
    ELSE IF session_id \in DOMAIN sessions THEN sessions[session_id]
    ELSE << >>

\* The history the handler hands to the agent.
HistoryFor(sessions, session_id, request_history) ==
    IF session_id \in DOMAIN sessions THEN sessions[session_id]
    ELSE OrEmptyList(request_history)

DictRemove(d, k) == [x \in (DOMAIN d) \ {k} |-> d[x]]

NoRequest ==
    [op |-> "", session_id |-> NoSessionId, status |-> 0, query |-> "",
     history |-> NoHistory]

SessionInit ==
    /\ out = EmptyDict
    /\ inp = NoRequest

\* POST /chat. A request without session_id gets a new uuid.
ChatWithFinanceAgent ==
    \E requested \in SessionIds \cup {NoSessionId}, query \in ChatQueries,
       history \in RequestHistories, run \in GraphRuns :
      \E session_id \in (IF requested = NoSessionId
                         THEN Uuids \ DOMAIN out ELSE {requested}) :
         LET conversation_history == HistoryFor(out, session_id, history)
             result == process_query_sync(query, conversation_history, run)
         IN /\ Len(conversation_history) < MaxHistory
            /\ out' = DictSet(out, session_id, result.conversation_history)
            /\ inp' = [op |-> "chat", session_id |-> session_id,
                       status |-> 200, query |-> query, history |-> history]
            /\ UNCHANGED <<agentVars, toolVars, chatVars>>

\* DELETE /session/{session_id}
ClearSession ==
    \E session_id \in SessionIds \cup Uuids :
       /\ out' = IF session_id \in DOMAIN out THEN DictRemove(out, session_id)
                 ELSE out
       /\ inp' = [op |-> "clear", session_id |-> session_id,
                  status |-> IF session_id \in DOMAIN out THEN 200 ELSE 404,
                  query |-> "", history |-> NoHistory]
       /\ UNCHANGED <<agentVars, toolVars, chatVars>>

SessionSpecInit == AgentIdle /\ ToolIdle /\ ChatIdle /\ SessionInit

SessionNext == ChatWithFinanceAgent \/ ClearSession

SessionSpec == SessionSpecInit /\ [][SessionNext]_vars

(***************************************************************************)
(* Properties of the session store (SessionSpec).                          *)
(***************************************************************************)
\* The sessions other than id are as they were.
OthersKept(id) ==
    /\ DOMAIN out' \ {id} = DOMAIN out \ {id}
    /\ \A s \in DOMAIN out \ {id} : out'[s] = out[s]

MaxRequests == 1

OwnedTables == {"transactions", "goals", "budgets", "recurring"}

\* The twelve actions the two handlers know, and one they do not.
RowActions ==
    {"add_transaction", "update_transaction", "delete_transaction",
     "add_goal", "update_goal", "delete_goal",
     "add_budget", "update_budget", "delete_budget",
     "add_recurring", "update_recurring", "delete_recurring"}

RequestedActions == RowActions \cup {"transfer_funds"}

ActionTable(action) ==
    CASE action \in {"add_transaction", "update_transaction",
                     "delete_transaction"} -> "transactions"
      [] action \in {"add_goal", "update_goal", "delete_goal"} -> "goals"
      [] action \in {"add_budget", "update_budget", "delete_budget"} -> "budgets"
      [] action \in {"add_recurring", "update_recurring", "delete_recurring"}
            -> "recurring"

ActionVerb(action) ==
    CASE action \in {"add_transaction", "add_goal", "add_budget",
                     "add_recurring"} -> "add"
      [] action \in {"update_transaction", "update_goal", "update_budget",
                     "update_recurring"} -> "update"
      [] action \in {"delete_transaction", "delete_goal", "delete_budget",
                     "delete_recurring"} -> "delete"
      [] OTHER -> "unknown"

\* user_id of the request: "default", a number, or text int() rejects.
OwnerIds == {"1", "2"}
RequestUserIds == OwnerIds \cup {"default", "abc"}

\* params: "id" missing (0) or naming row 1, 2 or a row that does not exist;
\* the other values well-formed, or one that float()/strptime rejects.
ParamIds == {0, 1, 2, 9}
ActionParams == [id : ParamIds, valid : BOOLEAN]

\* The ids the database may give a new row.
NewIds == 3..(2 + MaxRequests)

Row(user_id, columns) == [user_id |-> user_id, columns |-> columns]

\* Every table holds a row of user 1 and a row of user 2.
OwnedRows ==
    [t \in OwnedTables |->
        [i \in {1, 2} |-> Row(IF i = 1 THEN "1" ELSE "2", "stored")]]

\* The databases a request meets: the rows above; those rows after user 1
\* has updated a goal and deleted a budget; and two tables with the rows of
\* user 2 only.
OwnerDatabases ==
    { OwnedRows,
      [OwnedRows EXCEPT !["goals"][1].columns = "requested",
                        !["budgets"] = DictRemove(@, 1)],
      [OwnedRows EXCEPT !["transactions"] = DictRemove(@, 1),
                        !["recurring"] = DictRemove(@, 1)] }

\* A query that looked the row up by its id alone.
FindRowById(table, uid, id) ==
    IF id \in DOMAIN table THEN {id} ELSE {}

\* db.query(T).filter(T.user_id == uid, T.id == int(p["id"])).first()
FindRow(table, uid, id) ==
    IF id \in DOMAIN table /\ table[id].user_id = uid THEN {id} ELSE {}

\* One branch of the if/elif chain, for uid: the outcome ("ok": action_result
\* set; "none": action_result None; "raised": an exception left the chain)
\* and the committed database.
ApplyAction(db, uid, action, p, new_id) ==
    LET verb == ActionVerb(action)
        same == [outcome |-> "none", db |-> db]
        failed == [outcome |-> "raised", db |-> db]
    IN CASE verb = "add" ->
              IF ~p.valid THEN failed
              ELSE [outcome |-> "ok",
                    db |-> [db EXCEPT ![ActionTable(action)] =
                               DictSet(@, new_id, Row(uid, "requested"))]]
         [] verb = "update" /\ p.id # 0 ->
              LET t == ActionTable(action)
                  r == FindRow(db[t], uid, p.id)
              IN IF r = {} THEN same
                 ELSE IF ~p.valid THEN failed
                 ELSE [outcome |-> "ok",
                       db |-> [db EXCEPT ![t][p.id].columns = "requested"]]
         [] verb = "delete" /\ p.id # 0 ->
              LET t == ActionTable(action)
                  r == FindRow(db[t], uid, p.id)
              IN IF r = {} THEN same
                 ELSE [outcome |-> "ok",
                       db |-> [db EXCEPT ![t] = DictRemove(@, p.id)]]
         [] OTHER -> same

\* chat_with_agent, lines 95-196: nothing runs for "default"; int() of a
\* user_id that is no number raises inside the try block; the except clause
\* records the failure and the handler answers 200 either way.
ChatActionBlock(db, user_id, action, p, new_id) ==
    IF user_id = "default" THEN [status |-> 200, db |-> db]
    ELSE IF user_id = "abc" THEN [status |-> 200, db |-> db]
    ELSE [status |-> 200, db |-> ApplyAction(db, user_id, action, p, new_id).db]

\* execute_action: 400 when nothing was done, 500 when an exception that is
\* no HTTPException left the chain.
execute_action(db, user_id, action, p, new_id) ==
    IF user_id = "abc" THEN [status |-> 500, db |-> db]
    ELSE LET done == ApplyAction(db, user_id, action, p, new_id) IN
           [status |-> CASE done.outcome = "ok" -> 200
                         [] done.outcome = "none" -> 400
                         [] done.outcome = "raised" -> 500,
            db |-> done.db]

NoActionRequest ==
    [count |-> 0, endpoint |-> "", user_id |-> "", action |-> "",
     id |-> 0, status |-> 0]

OwnerInit ==
    /\ out \in OwnerDatabases
    /\ inp = NoActionRequest

Requested(endpoint, user_id, action, p, answer) ==
    /\ out' = answer.db
    /\ inp' = [count |-> inp.count + 1, endpoint |-> endpoint,
               user_id |-> user_id, action |-> action, id |-> p.id,
               status |-> answer.status]
    /\ UNCHANGED <<agentVars, toolVars, chatVars>>

\* POST /chat whose extracted action is `action` with params p.
ChatWithAgentAction ==
    /\ inp.count < MaxRequests
    /\ \E user_id \in RequestUserIds, action \in RequestedActions,
          p \in ActionParams, new_id \in NewIds :
         /\ new_id \notin DOMAIN out[IF action \in RowActions
                                     THEN ActionTable(action)
                                     ELSE "transactions"]
         /\ Requested("/chat", user_id, action, p,
                      ChatActionBlock(out, user_id, action, p, new_id))

\* POST /chat/execute with user_id and action present in the body.
PostExecuteAction ==
    /\ inp.count < MaxRequests
    /\ \E user_id \in OwnerIds \cup {"abc"}, action \in RequestedActions,
          p \in ActionParams, new_id \in NewIds :
         /\ new_id \notin DOMAIN out[IF action \in RowActions
                                     THEN ActionTable(action)
                                     ELSE "transactions"]
         /\ Requested("/chat/execute", user_id, action, p,
                      execute_action(out, user_id, action, p, new_id))

OwnerSpecInit == AgentIdle /\ ToolIdle /\ ChatIdle /\ OwnerInit

OwnerNext == ChatWithAgentAction \/ PostExecuteAction

OwnerSpec == OwnerSpecInit /\ [][OwnerNext]_vars

(***************************************************************************)
(* Properties of the row actions (OwnerSpec).                              *)
(***************************************************************************)
\* Row id of table t was modified or deleted by the step.
Touched(t, id) ==
    id \in DOMAIN out[t] /\ (id \notin DOMAIN out'[t] \/ out'[t][id] # out[t][id])

\* C28: an update_* or delete_* action requested for user U modifies or
\* deletes only a row whose user_id is U; when the target id does not exist
\* or belongs to another user no row of any table changes and /chat/execute
\* answers 400, as it does for an unknown action.
C28_OnlyOwnRows ==
    [][inp'.count = inp.count + 1 =>
         LET verb == ActionVerb(inp'.action) IN
           /\ verb \in {"update", "delete"} =>
                /\ \A t \in OwnedTables : \A id \in DOMAIN out[t] :
                      Touched(t, id) => out[t][id].user_id = inp'.user_id
                /\ LET table == out[ActionTable(inp'.action)] IN
                     (/\ inp'.id # 0
                      /\ \/ inp'.id \notin DOMAIN table
                         \/ table[inp'.id].user_id # inp'.user_id)
                        => /\ out' = out
                           /\ inp'.endpoint = "/chat/execute"
                                /\ inp'.user_id \in OwnerIds
                                => inp'.status = 400
           /\ verb = "unknown" =>
                /\ out' = out
                /\ inp'.endpoint = "/chat/execute" /\ inp'.user_id \in OwnerIds
                     => inp'.status = 400]_vars

\* User 1, who had updated a goal of their own, asked /chat/execute to
\* delete user 2's goal: 400, and both goals are as they were.
C28_Witness ==
    /\ inp.count = 1
    /\ inp.endpoint = "/chat/execute"
    /\ inp.user_id = "1" /\ inp.action = "delete_goal" /\ inp.id = 2
    /\ inp.status = 400
    /\ DOMAIN out["goals"] = {1, 2}
    /\ out["goals"][2] = Row("2", "stored")
    /\ out["goals"][1] = Row("1", "requested")

(***************************************************************************)
(* Properties of the two modules' error handling (ModuleSpec).             *)
(***************************************************************************)
\* The statements invocation i's try block had to run.
StepsOf(i) ==
    LET c == calls[i].before.context IN
      IF calls[i].module = "risk_assessment"
      THEN RiskSteps(c.transactions, c.budget, c.investments, c.goals)
      ELSE PlannerSteps(c.transactions, c.budget, c.investments, c.goals)

\* The statements of invocation i that raise.
FailingSteps(i) == { n \in DOMAIN StepsOf(i) : StepsOf(i)[n].exc # NoException }

\* C29: on a context that is a mapping neither module raises out of
\* __call__; when a sub-analysis raises, the result has the "error" entry,
\* the keys assigned before the failing statement hold their sub-results,
\* the failing one and the later ones hold their initial values; and in
\* every case the module has written analysis_results[<its name>] and
\* appended its name to tools_used.
C29_SubAnalysisErrorsRecorded ==
    \A i \in DOMAIN calls :
       LET m == calls[i].module
           steps == StepsOf(i)
           fails == FailingSteps(i)
       IN /\ ~calls[i].raised
          /\ m \in DOMAIN calls[i].after.analysis_results
          /\ calls[i].after.tools_used = Append(calls[i].before.tools_used, m)
          /\ ("error" \in DOMAIN ResultOf(i)) <=> (fails # {})
          /\ \A n \in DOMAIN steps :
                IF \E f \in fails : f <= n
                THEN ResultOf(i)[steps[n].key] = Default
                ELSE ResultOf(i)[steps[n].key] # Default

\* The risk module failed at its third sub-analysis and the planner at its
\* sixth, on the same context; both registered.
C29_Witness ==
    \E i \in CallsOf("risk_assessment"),
       j \in CallsOf("advanced_financial_planner") :
       /\ i < j
       /\ "error" \in DOMAIN ResultOf(i)
       /\ ResultOf(i)["risk_categories"] # Default
       /\ ResultOf(i)["vulnerability_assessment"] = Default
       /\ ResultOf(i)["stress_test_results"] = Default
       /\ "error" \in DOMAIN ResultOf(j)
       /\ ResultOf(j)["emergency_fund_months"] # Default
       /\ ResultOf(j)["optimization_recommendations"] = Default
       /\ ResultOf(j)["retirement_readiness"] = Default
       /\ ws.tools_used = <<"risk_assessment", "advanced_financial_planner">>

(***************************************************************************)
(* The shape of the per-category budget score (ScoreSpec).                 *)
(***************************************************************************)
\* C30: the per-category budget adherence score is non-increasing in
\* percentage_used: of two categories of the scored month, the one that
\* used more of its budget never scores higher than the other; a category
\* above 100% never scores higher than one at or below 100%.
C30_CategoryScoreNonIncreasing ==
    (out.computed /\ inp.budget.present /\ inp.budget.has_month) =>
       \A i, j \in DOMAIN inp.budget.categories :
          inp.budget.categories[i] <= inp.budget.categories[j] =>
             CategoryScore(inp.budget.categories[j])
                <= CategoryScore(inp.budget.categories[i])

====
